---- MODULE Spec2Model ----
(***************************************************************************)
(* Chronicler: content-addressed hash tree over a source directory, doc    *)
(* pairing, drift detection, tree diff, serialization, freshness report    *)
(* and blast-radius walk.                                                  *)
(*                                                                         *)
(* Conventions of the model                                                *)
(*   - a Python str is a sequence of tokens (TokenOrder lists them in      *)
(*     code-point order); "/", "." and "-" are tokens of their own, so     *)
(*     split, rsplit, stem, with_suffix and re.sub act on the sequence;    *)
(*   - a pathlib.Path is the sequence of its parts, each part a str;       *)
(*   - bytes are sequences of integers; a digest is a sequence of hex      *)
(*     digits 0..15 (the characters 0-9a-f);                               *)
(*   - an Optional value is [some |-> BOOLEAN, v |-> value] (None has      *)
(*     some = FALSE and v = << >>);                                        *)
(*   - a Python tuple/list of strings is [kind |-> "tuple"|"list",         *)
(*     items |-> sequence].                                                *)
(***************************************************************************)
EXTENDS Integers, Sequences, FiniteSets, TLC

VARIABLES
    disk,      \* the filesystem: absolute path -> entry
    clock,     \* datetime.now(timezone.utc), advanced by every build
    tree,      \* the MerkleTree held by the caller, or None
    old,       \* the MerkleTree built before it, kept for diff, or None
    edits,     \* number of disk changes made so far
    dirty,     \* the disk changed since tree was built
    between,   \* the disk changed between the builds of old and tree
    saved,     \* the JSON document in the persisted tree file, or None
    input,     \* the arguments of the last call of a pure function
    result,    \* what the last operation returned or raised
    jobs,      \* the rows of the jobs table of the queue database, by id
    lock,      \* the connection holding the database's write lock, or "free"
    calls,     \* every connection's running call, and what its last call returned
    returned   \* the ids of the jobs returned by dequeue calls so far

\* The job queue's variables.
qvars == <<jobs, lock, calls, returned>>

vars == <<disk, clock, tree, old, edits, dirty, between, saved, input, result, qvars>>

(***************************************************************************)
(* Bounds                                                                  *)
(***************************************************************************)
MaxContent == 2    \* distinct file contents written to disk
MaxEdits == 2      \* disk changes (write / delete) in one behaviour
MaxClock == 2      \* builds in one behaviour
MaxChildren == 3   \* child hashes handed to one fold
MaxEdgeCount == 3  \* edges of a doc graph
MaxDepth == 2      \* --depth of a blast-radius walk

(***************************************************************************)
(* Generic helpers                                                         *)
(***************************************************************************)
Min(S) == CHOOSE x \in S : \A y \in S : x <= y
Max(S) == CHOOSE x \in S : \A y \in S : y <= x
Range(s) == {s[i] : i \in 1..Len(s)}
None == [some |-> FALSE, v |-> << >>]
Some(x) == [some |-> TRUE, v |-> x]

\* Python sorted(): a stable sort of seq under the strict order Less.
SortBy(seq, Less(_, _)) ==
    LET n == Len(seq)
        pos == [i \in 1..n |-> 1 + Cardinality({j \in 1..n :
                        \/ Less(seq[j], seq[i])
                        \/ (~Less(seq[i], seq[j]) /\ j < i)})]
    IN  [k \in 1..n |-> seq[CHOOSE i \in 1..n : pos[i] = k]]

\* A faulty variant of Dedupe that keeps the repeats.
KeepRepeats(seq) == seq

\* list(dict.fromkeys(seq)): drop repeats, keep the first occurrence's place.
Dedupe(seq) ==
    LET keep == {i \in 1..Len(seq) : \A j \in 1..(i - 1) : seq[j] # seq[i]}
    IN  [k \in 1..Cardinality(keep) |->
            seq[CHOOSE i \in keep : Cardinality({j \in keep : j < i}) = k - 1]]

RECURSIVE Concat(_)
Concat(seqs) == IF seqs = << >> THEN << >> ELSE Head(seqs) \o Concat(Tail(seqs))

(***************************************************************************)
(* Strings and paths                                                       *)
(***************************************************************************)
\* The tokens of the model's strings in ascending code-point order.
TokenOrder ==
    << "-", ".", "..", ".chronicler", ".merkle", "/", "README", "a", "b", "build",
       "deep", "evil", "json", "main", "md", "merkle-tree", "nonexistent", "outside",
       "project", "py", "src", "tech", "util", "x" >>

TokRank(t) == CHOOSE i \in 1..Len(TokenOrder) : TokenOrder[i] = t

\* str.__lt__: lexicographic comparison.
StrLess(s, t) ==
    LET n == IF Len(s) < Len(t) THEN Len(s) ELSE Len(t)
        d == {i \in 1..n : s[i] # t[i]}
    IN  IF d = {} THEN Len(s) < Len(t)
        ELSE TokRank(s[Min(d)]) < TokRank(t[Min(d)])

\* str.split(sep)
RECURSIVE SplitOn(_, _)
SplitOn(s, sep) ==
    LET hits == {i \in 1..Len(s) : s[i] = sep}
    IN  IF hits = {} THEN <<s>>
        ELSE <<SubSeq(s, 1, Min(hits) - 1)>>
                 \o SplitOn(SubSeq(s, Min(hits) + 1, Len(s)), sep)

\* sep.join(pieces)
RECURSIVE JoinWith(_, _)
JoinWith(pieces, sep) ==
    IF pieces = << >> THEN << >>
    ELSE IF Len(pieces) = 1 THEN pieces[1]
    ELSE pieces[1] \o <<sep>> \o JoinWith(Tail(pieces), sep)

\* pathlib.PurePath(s).parts for a relative s: empty and "." parts are dropped.
PathOf(s) == SelectSeq(SplitOn(s, "/"), LAMBDA p : p # << >> /\ p # <<".">>)

\* str(path) of a relative path; the empty path prints as ".".
StrOf(parts) == IF parts = << >> THEN <<".">> ELSE JoinWith(parts, "/")

\* str(path) of an absolute path, and Path(str) back.
AbsStr(parts) == <<"/">> \o JoinWith(parts, "/")
AbsPathOf(s) == PathOf(s)

\* PurePath.parent
Parent(parts) == IF parts = << >> THEN << >> ELSE SubSeq(parts, 1, Len(parts) - 1)

\* PurePath.name
NameOf(parts) == IF parts = << >> THEN << >> ELSE parts[Len(parts)]

\* Index of the dot that starts PurePath.suffix, or 0: the last dot of the
\* name when it is neither the first nor the last character.
SuffixDot(name) ==
    LET dots == {i \in 1..Len(name) : name[i] = "."}
    IN  IF dots = {} THEN 0
        ELSE IF Max(dots) > 1 /\ Max(dots) < Len(name) THEN Max(dots) ELSE 0

\* PurePath.stem
Stem(parts) ==
    LET name == NameOf(parts)
    IN  IF SuffixDot(name) = 0 THEN name ELSE SubSeq(name, 1, SuffixDot(name) - 1)

\* PurePath.with_suffix("")
WithoutSuffix(parts) ==
    IF parts = << >> THEN parts
    ELSE [parts EXCEPT ![Len(parts)] = Stem(parts)]

\* PurePath.relative_to(root), for a path under root.
RelativeTo(abs, root) == SubSeq(abs, Len(root) + 1, Len(abs))

IsUnder(abs, root) ==
    Len(abs) >= Len(root) /\ SubSeq(abs, 1, Len(root)) = root

(***************************************************************************)
(* Hasher                                                                  *)
(***************************************************************************)
HashLen == 12

\* A position-weighted checksum of the bytes lo..hi, of 28 bits.
RECURSIVE Mix(_, _, _, _)
Mix(content, lo, hi, k) ==
    IF lo > hi THEN 0
    ELSE IF lo = hi
        THEN ((content[lo] + 1) * ((k * lo * lo + (2 * k + 1) * lo + 7 * k) % 4099)) % 268435456
    ELSE LET mid == (lo + hi) \div 2
         IN  (Mix(content, lo, mid, k) + Mix(content, mid + 1, hi, k)) % 268435456

\* One 28-bit word of the stand-in for SHA-256.
Word(content, k) ==
    (Mix(content, 1, Len(content), k) + 1000003 * (Len(content) + 1) + 2236962 * k) % 268435456

\* The hex digits of a 28-bit word, least significant first.
HexDigits(word) == [i \in 1..7 |-> (word \div (16 ^ (i - 1))) % 16]

\* hashlib.sha256(content).hexdigest(): SHA-256 is stood in for by the hex
\* digits of two checksums of the bytes, seven digits for each.
hexdigest(content) == HexDigits(Word(content, 3)) \o HexDigits(Word(content, 5))

\* hashlib.sha256(content).hexdigest()[:12]
compute_hash(content) == SubSeq(hexdigest(content), 1, HashLen)

\* str.encode() of a string of hex characters.
EncodeHex(digits) ==
    [k \in 1..Len(digits) |-> IF digits[k] < 10 THEN 48 + digits[k] ELSE 87 + digits[k]]

\* Lexicographic order of two digest strings.
HashLess(g, h) ==
    LET n == IF Len(g) < Len(h) THEN Len(g) ELSE Len(h)
        d == {i \in 1..n : g[i] # h[i]}
    IN  IF d = {} THEN Len(g) < Len(h) ELSE g[Min(d)] < h[Min(d)]

\* A faulty variant of compute_merkle_hash that joins the hashes in the given order.
compute_merkle_hash_unsorted(child_hashes) ==
    compute_hash(EncodeHex(Concat(child_hashes)))

\* compute_hash("".join(sorted(child_hashes)).encode())
compute_merkle_hash(child_hashes) ==
    compute_hash(EncodeHex(Concat(SortBy(child_hashes, HashLess))))

(***************************************************************************)
(* Filesystem                                                              *)
(***************************************************************************)
Root == << <<"project">> >>            \* root_path, already resolved
OutsideDir == << <<"outside">> >>      \* a directory next to the root
DocDir == <<".chronicler">>            \* doc_dir = ".chronicler"
TechMd == <<".", "tech", ".", "md">>   \* the ".tech.md" ending

ReadmeMd == << <<"README", ".", "md">> >>
SrcMainPy == << <<"src">>, <<"main", ".", "py">> >>
SrcUtilPy == << <<"src">>, <<"util", ".", "py">> >>
DeepPy == << <<"a">>, <<"b">>, <<"deep", ".", "py">> >>
BuildMainPy == << <<"build">>, <<"main", ".", "py">> >>
RootDocMain == << DocDir, <<"src", "-", "main">> \o TechMd >>
SiblingDocMain == << <<"src">>, DocDir, <<"main">> \o TechMd >>
EvilDoc == OutsideDir \o << DocDir, <<"evil">> \o TechMd >>
TreeFile == << DocDir, <<"merkle-tree", ".", "json">> >>

\* Relative paths of the files a project of the model may hold.
ProjectFiles ==
    {ReadmeMd, SrcMainPy, SrcUtilPy, DeepPy, BuildMainPy, RootDocMain, SiblingDocMain}

InsidePaths == {Root \o f : f \in ProjectFiles}
DiskPaths == InsidePaths \cup {Root \o TreeFile, EvilDoc}

\* A directory entry; readable is the process's permission to open it.
Absent == [kind |-> "none", data |-> << >>, to |-> << >>, readable |-> TRUE]
File(bytes) == [kind |-> "file", data |-> bytes, to |-> << >>, readable |-> TRUE]
Link(target) == [kind |-> "link", data |-> << >>, to |-> target, readable |-> TRUE]
\* A regular file the process may stat but not open (mode 000).
Locked(bytes) == [kind |-> "file", data |-> bytes, to |-> << >>, readable |-> FALSE]

Contents == {<<c>> : c \in 1..MaxContent}

\* A directory exists when it is the filesystem root, the project root, the
\* outside directory, or an ancestor of an entry on disk.
IsDir(p, fs) ==
    \/ p \in {<< >>, Root, OutsideDir}
    \/ \E q \in DOMAIN fs :
          fs[q].kind # "none" /\ Len(q) > Len(p) /\ SubSeq(q, 1, Len(p)) = p

NoEnt == [found |-> FALSE, at |-> << >>]

\* The kernel's lookup of an absolute path: every component on the way must
\* be an existing directory, ".." moves up, symlinks are followed.
RECURSIVE Lookup(_, _, _)
Lookup(cur, rest, fs) ==
    IF rest = << >> THEN [found |-> TRUE, at |-> cur]
    ELSE IF Head(rest) = <<"..">> THEN Lookup(Parent(cur), Tail(rest), fs)
    ELSE LET nxt == Append(cur, Head(rest))
         IN  IF nxt \in DOMAIN fs /\ fs[nxt].kind = "file"
                 THEN IF Tail(rest) = << >> THEN [found |-> TRUE, at |-> nxt] ELSE NoEnt
             ELSE IF nxt \in DOMAIN fs /\ fs[nxt].kind = "link"
                 THEN Lookup(<< >>, fs[nxt].to \o Tail(rest), fs)
             ELSE IF IsDir(nxt, fs) THEN Lookup(nxt, Tail(rest), fs)
             ELSE NoEnt

\* Path.is_file()
is_file(p, fs) ==
    LET r == Lookup(<< >>, p, fs)
    IN  r.found /\ r.at \in DOMAIN fs /\ fs[r.at].kind = "file"

\* Path.read_bytes() of a path for which is_file holds.
read_bytes(p, fs) == fs[Lookup(<< >>, p, fs).at].data

\* open() of a path for which is_file holds succeeds; without it
\* read_bytes raises PermissionError.
can_read(p, fs) == fs[Lookup(<< >>, p, fs).at].readable

\* Path.resolve() (os.path.realpath, strict=False): ".." pops the resolved
\* prefix, a symlink is replaced by its target, missing components are kept.
RECURSIVE resolve(_, _, _)
resolve(cur, rest, fs) ==
    IF rest = << >> THEN cur
    ELSE IF Head(rest) = <<"..">> THEN resolve(Parent(cur), Tail(rest), fs)
    ELSE LET nxt == Append(cur, Head(rest))
         IN  IF nxt \in DOMAIN fs /\ fs[nxt].kind = "link"
                 THEN resolve(<< >>, fs[nxt].to \o Tail(rest), fs)
             ELSE resolve(nxt, Tail(rest), fs)

\* PurePath.is_relative_to(other)
is_relative_to(p, other) == IsUnder(p, other)

\* compute_hash(path.read_bytes())
compute_file_hash(p, fs) == compute_hash(read_bytes(p, fs))

(***************************************************************************)
(* Doc pairing                                                             *)
(***************************************************************************)
\* root / src.parent / doc_dir / f"{stem}.tech.md"
SiblingCandidate(source_rel, doc_dir, root) ==
    LET src == PathOf(source_rel)
    IN  root \o Parent(src) \o PathOf(doc_dir) \o << Stem(src) \o TechMd >>

\* re.sub(r"[/\\]", "-", str(src.with_suffix("")))
ComponentId(source_rel) ==
    LET s == StrOf(WithoutSuffix(PathOf(source_rel)))
    IN  [k \in 1..Len(s) |-> IF s[k] = "/" THEN "-" ELSE s[k]]

\* root / doc_dir / f"{component_id}.tech.md"
RootCandidate(source_rel, doc_dir, root) ==
    root \o PathOf(doc_dir) \o << ComponentId(source_rel) \o TechMd >>

\* candidate.resolve().is_relative_to(root.resolve()) and candidate.is_file()
GuardedIsFile(candidate, root, fs) ==
    /\ is_relative_to(resolve(<< >>, candidate, fs), resolve(<< >>, root, fs))
    /\ is_file(candidate, fs)

\* A faulty variant of _find_doc_for_source without the traversal guard.
FindDocUnguarded(source_rel, doc_dir, root, fs) ==
    IF is_file(SiblingCandidate(source_rel, doc_dir, root), fs)
        THEN [raised |-> "", doc |-> Some(SiblingCandidate(source_rel, doc_dir, root))]
    ELSE IF PathOf(source_rel) = << >>
        THEN [raised |-> "ValueError", doc |-> None]
    ELSE IF is_file(RootCandidate(source_rel, doc_dir, root), fs)
        THEN [raised |-> "", doc |-> Some(RootCandidate(source_rel, doc_dir, root))]
    ELSE [raised |-> "", doc |-> None]

\* A faulty variant of _find_doc_for_source that tries the root candidate first.
FindDocRootFirst(source_rel, doc_dir, root, fs) ==
    IF PathOf(source_rel) = << >>
        THEN [raised |-> "ValueError", doc |-> None]
    ELSE IF GuardedIsFile(RootCandidate(source_rel, doc_dir, root), root, fs)
        THEN [raised |-> "", doc |-> Some(RootCandidate(source_rel, doc_dir, root))]
    ELSE IF GuardedIsFile(SiblingCandidate(source_rel, doc_dir, root), root, fs)
        THEN [raised |-> "", doc |-> Some(SiblingCandidate(source_rel, doc_dir, root))]
    ELSE [raised |-> "", doc |-> None]

\* _find_doc_for_source: the paired document's path, None, or the ValueError
\* with_suffix raises for a path with an empty name.
find_doc_for_source(source_rel, doc_dir, root, fs) ==
    IF GuardedIsFile(SiblingCandidate(source_rel, doc_dir, root), root, fs)
        THEN [raised |-> "", doc |-> Some(SiblingCandidate(source_rel, doc_dir, root))]
    ELSE IF PathOf(source_rel) = << >>
        THEN [raised |-> "ValueError", doc |-> None]
    ELSE IF GuardedIsFile(RootCandidate(source_rel, doc_dir, root), root, fs)
        THEN [raised |-> "", doc |-> Some(RootCandidate(source_rel, doc_dir, root))]
    ELSE [raised |-> "", doc |-> None]

(***************************************************************************)
(* Tree model                                                              *)
(***************************************************************************)
EmptyStr == << >>                      \* the str ""
Tuple(items) == [kind |-> "tuple", items |-> items]
List(items) == [kind |-> "list", items |-> items]

\* A faulty variant of IsHex12 that matches a prefix (re.match).
IsHex12Prefix(h) == Len(h) >= HashLen /\ \A i \in 1..HashLen : h[i] \in 0..15

\* _HEX12_RE.fullmatch(hash): exactly 12 characters, each in [a-f0-9].
IsHex12(h) == Len(h) = HashLen /\ \A i \in 1..Len(h) : h[i] \in 0..15

\* MerkleNode(...): the frozen dataclass with its defaults.
MerkleNode(path, hash, children, source_hash, doc_hash, doc_path, stale) ==
    [path |-> path, hash |-> hash, children |-> children,
     source_hash |-> source_hash, doc_hash |-> doc_hash,
     doc_path |-> doc_path, stale |-> stale]

\* MerkleTree(root_hash, nodes, last_scan, root_path); keys is the insertion
\* order of the nodes dict.
MerkleTree(root_hash, keys, nodes, last_scan, root_path) ==
    [root_hash |-> root_hash, keys |-> keys, nodes |-> nodes,
     last_scan |-> last_scan, root_path |-> root_path]

\* datetime.now(timezone.utc) at tick t.
UtcTime(t) == [ticks |-> t, tz |-> "UTC"]

\* The file nodes of a tree: the keys whose node has a source_hash.
FileKeys(t) == {k \in DOMAIN t.nodes : t.nodes[k].source_hash.some}

(***************************************************************************)
(* Tree builder                                                            *)
(***************************************************************************)
DEFAULT_IGNORE ==
    {<<".git">>, <<"node_modules">>, <<"build">>, <<"dist">>, <<"__pycache__">>, <<".venv">>}

\* _matches_any(path, patterns)
matches_any(parts, patterns) == \E i \in 1..Len(parts) : parts[i] \in patterns

\* PurePath.__lt__: the parts compared as a list of strings.
PathLess(p, q) ==
    LET n == IF Len(p) < Len(q) THEN Len(p) ELSE Len(q)
        d == {i \in 1..n : p[i] # q[i]}
    IN  IF d = {} THEN Len(p) < Len(q) ELSE StrLess(p[Min(d)], q[Min(d)])

\* The elements of a set in ascending order.
SortSet(S, Less(_, _)) ==
    LET below == [x \in S |-> Cardinality({y \in S : Less(y, x)})]
    IN  [k \in 1..Cardinality(S) |-> CHOOSE x \in S : below[x] = k - 1]

\* all_files: sorted(root_path.rglob("*")) without ignored entries, files only.
AllFiles(fs, root, ignore) ==
    SortSet({p \in DOMAIN fs :
                /\ fs[p].kind # "none"
                /\ IsUnder(p, root) /\ p # root
                /\ ~matches_any(RelativeTo(p, root), ignore)
                /\ is_file(p, fs)},
            PathLess)

\* children_map[key].append(item) on a defaultdict(list); keys is the order
\* in which the dict's keys were first touched.
MapAppend(cmap, key, item) ==
    IF key \in DOMAIN cmap.lists
        THEN [cmap EXCEPT !.lists[key] = Append(@, item)]
    ELSE [keys |-> Append(cmap.keys, key),
          lists |-> [k \in DOMAIN cmap.lists \cup {key} |->
                        IF k = key THEN <<item>> ELSE cmap.lists[k]]]

\* cur.rsplit("/", 1)[0] for a cur that holds a "/".
RsplitHead(cur) == SubSeq(cur, 1, Max({i \in 1..Len(cur) : cur[i] = "/"}) - 1)

\* The while loop that registers each ancestor directory with its parent.
RECURSIVE WalkAncestors(_, _)
WalkAncestors(cmap, cur) ==
    IF cur = EmptyStr THEN cmap
    ELSE LET ancestor == IF "/" \in Range(cur) THEN RsplitHead(cur) ELSE EmptyStr
         IN  WalkAncestors(MapAppend(cmap, ancestor, cur),
                           IF ancestor # cur THEN ancestor ELSE EmptyStr)

\* One iteration of "for fpath in all_files": the file's node, and its
\* registration in children_map.
FileNode(fpath, fs, root, doc_dir) ==
    LET rel == StrOf(RelativeTo(fpath, root))
        source_hash == compute_file_hash(fpath, fs)
        found == find_doc_for_source(rel, doc_dir, root, fs).doc
    IN  MerkleNode(rel, source_hash, Tuple(<< >>), Some(source_hash),
            IF found.some THEN Some(compute_file_hash(found.v, fs)) ELSE None,
            IF found.some THEN Some(StrOf(RelativeTo(found.v, root))) ELSE None,
            FALSE)

RegisterFile(cmap, fpath, root) ==
    LET rel == StrOf(RelativeTo(fpath, root))
        p == StrOf(RelativeTo(Parent(fpath), root))
        parent == IF p = <<".">> THEN EmptyStr ELSE p
    IN  WalkAncestors(MapAppend(cmap, parent, rel), parent)

RECURSIVE RegisterAll(_, _, _)
RegisterAll(cmap, files, root) ==
    IF files = << >> THEN cmap
    ELSE RegisterAll(RegisterFile(cmap, Head(files), root), Tail(files), root)

\* _depth(d)
Depth(d) == IF d # EmptyStr THEN Len(SplitOn(d, "/")) ELSE 0

\* A faulty variant of DirKeys that takes the shallowest directories first.
DirKeysShallowFirst(cmap) == SortBy(cmap.keys, LAMBDA d, e : Depth(d) < Depth(e))

\* dir_keys = sorted(children_map.keys(), key=_depth, reverse=True)
DirKeys(cmap) == SortBy(cmap.keys, LAMBDA d, e : Depth(d) > Depth(e))

\* nodes[key] = node on a dict kept as (keys, nodes).
DictPut(t, key, node) ==
    [keys |-> IF key \in DOMAIN t.nodes THEN t.keys ELSE Append(t.keys, key),
     nodes |-> [k \in DOMAIN t.nodes \cup {key} |-> IF k = key THEN node ELSE t.nodes[k]],
     raised |-> t.raised]

\* "for dpath in dir_keys": a directory node from its children's hashes; a
\* child without a node yet makes nodes[c] raise KeyError.
RECURSIVE FoldDirs(_, _, _, _)
FoldDirs(t, dirs, cmap, kind) ==
    IF dirs = << >> \/ t.raised # "" THEN t
    ELSE LET dpath == Head(dirs)
             child_paths == Dedupe(cmap.lists[dpath])
             sorted == SortBy(child_paths, StrLess)
         IN  IF \E c \in Range(sorted) : c \notin DOMAIN t.nodes
                 THEN [t EXCEPT !.raised = "KeyError"]
             ELSE FoldDirs(
                    DictPut(t, dpath,
                        MerkleNode(dpath,
                            compute_merkle_hash([k \in 1..Len(sorted) |-> t.nodes[sorted[k]].hash]),
                            [kind |-> kind, items |-> sorted], None, None, None, FALSE)),
                    Tail(dirs), cmap, kind)

RECURSIVE PutFiles(_, _, _, _, _)
PutFiles(t, files, fs, root, doc_dir) ==
    IF files = << >> THEN t
    ELSE PutFiles(
            DictPut(t, StrOf(RelativeTo(Head(files), root)),
                    FileNode(Head(files), fs, root, doc_dir)),
            Tail(files), fs, root, doc_dir)

\* compute_file_hash of the file and of its paired doc both return.
CanHashNode(fpath, fs, root, doc_dir) ==
    LET found == find_doc_for_source(StrOf(RelativeTo(fpath, root)), doc_dir, root, fs).doc
    IN  can_read(fpath, fs) /\ (found.some => can_read(found.v, fs))

\* The body shared by MerkleTree.build and MerkleTreeBuilder.build; kind is
\* the Python type given to a directory node's children.
BuildTree(fs, root_path, doc_dir, ignore_patterns, now, kind) ==
    LET root == resolve(<< >>, root_path, fs)
        ignore == DEFAULT_IGNORE \cup ignore_patterns
        all_files == AllFiles(fs, root, ignore)
        empty == [keys |-> << >>, nodes |-> << >>, raised |-> ""]
        cmap == RegisterAll([keys |-> << >>, lists |-> << >>], all_files, root)
        withFiles == PutFiles(empty, all_files, fs, root, doc_dir)
        t == IF \E i \in 1..Len(all_files) : ~CanHashNode(all_files[i], fs, root, doc_dir)
                 THEN [empty EXCEPT !.raised = "PermissionError"]
             ELSE FoldDirs(withFiles, DirKeys(cmap), cmap, kind)
    IN  [raised |-> t.raised,
         tree |-> MerkleTree(
             IF EmptyStr \in DOMAIN t.nodes THEN t.nodes[EmptyStr].hash
             ELSE compute_hash(<< >>),
             t.keys, t.nodes, now, AbsStr(root))]

\* A faulty variant of MerkleTree.build that mixes the scan time into the root hash.
MerkleTree_build_stamped(fs, root_path, now) ==
    LET b == BuildTree(fs, root_path, DocDir, {}, now, "list")
    IN  [b EXCEPT !.tree.root_hash = compute_hash(EncodeHex(@) \o <<now.ticks>>)]

\* MerkleTree.build(root_path): children of directory nodes are lists.
MerkleTree_build(fs, root_path, now) ==
    BuildTree(fs, root_path, DocDir, {}, now, "list")

\* MerkleTreeBuilder.build(root_path): children of directory nodes are tuples.
MerkleTreeBuilder_build(fs, root_path, now) ==
    BuildTree(fs, root_path, DocDir, {}, now, "tuple")

(***************************************************************************)
(* Drift detection                                                         *)
(***************************************************************************)
\* The test of the drift loop: a file node whose file is on disk with a
\* content hash other than the recorded source_hash.
Drifted(t, k, fs) ==
    LET node == t.nodes[k]
        fpath == AbsPathOf(t.root_path) \o PathOf(node.path)
    IN  /\ node.source_hash.some
        /\ is_file(fpath, fs)
        /\ compute_file_hash(fpath, fs) # node.source_hash.v

\* A file node at which compute_file_hash raises PermissionError.
Unreadable(t, k, fs) ==
    LET node == t.nodes[k]
        fpath == AbsPathOf(t.root_path) \o PathOf(node.path)
    IN  /\ node.source_hash.some
        /\ is_file(fpath, fs)
        /\ ~can_read(fpath, fs)

\* The position in dict order at which the drift loop raises, or 0.
RaisesAt(t, fs) ==
    LET hits == {i \in 1..Len(t.keys) : Unreadable(t, t.keys[i], fs)}
    IN  IF hits = {} THEN 0 ELSE Min(hits)

\* The keys the drift loop gets through.
Scanned(t, fs) ==
    IF RaisesAt(t, fs) = 0 THEN t.keys ELSE SubSeq(t.keys, 1, RaisesAt(t, fs) - 1)

\* The keys the drift loop acts on, in dict order.
DriftKeys(t, fs) == SelectSeq(Scanned(t, fs), LAMBDA k : Drifted(t, k, fs))

\* MerkleTree.check_drift: "node.stale = True" assigns to a field of the
\* frozen dataclass MerkleNode, which raises FrozenInstanceError at the
\* first drifted node; without drift the loop returns the empty list.
MerkleTree_check_drift(t, fs) ==
    IF DriftKeys(t, fs) # << >>
        THEN [raised |-> "FrozenInstanceError", value |-> << >>, tree |-> t]
    ELSE IF RaisesAt(t, fs) # 0
        THEN [raised |-> "PermissionError", value |-> << >>, tree |-> t]
    ELSE [raised |-> "", value |-> << >>, tree |-> t]

\* A faulty variant of MerkleTreeDiffer.check_drift that also stores the
\* current content hash as the hash of each drifted node.
DifferCheckDriftRehash(t, fs) ==
    LET hit == DriftKeys(t, fs)
        nodes == [k \in DOMAIN t.nodes |->
                    IF k \in Range(hit)
                        THEN [t.nodes[k] EXCEPT
                                !.stale = TRUE,
                                !.hash = compute_file_hash(AbsPathOf(t.root_path) \o PathOf(k), fs)]
                    ELSE t.nodes[k]]
    IN  [raised |-> IF RaisesAt(t, fs) # 0 THEN "PermissionError" ELSE "",
         value |-> IF RaisesAt(t, fs) # 0 THEN << >>
                   ELSE [i \in 1..Len(hit) |-> nodes[hit[i]]],
         tree |-> [t EXCEPT !.nodes = nodes]]

\* MerkleTreeDiffer.check_drift: each drifted node is replaced in the dict
\* by a copy with stale=True, and the copies are returned in dict order.
MerkleTreeDiffer_check_drift(t, fs) ==
    LET hit == DriftKeys(t, fs)
        nodes == [k \in DOMAIN t.nodes |->
                    IF k \in Range(hit) THEN [t.nodes[k] EXCEPT !.stale = TRUE]
                    ELSE t.nodes[k]]
    IN  [raised |-> IF RaisesAt(t, fs) # 0 THEN "PermissionError" ELSE "",
         value |-> IF RaisesAt(t, fs) # 0 THEN << >>
                   ELSE [i \in 1..Len(hit) |-> nodes[hit[i]]],
         tree |-> [t EXCEPT !.nodes = nodes]]

(***************************************************************************)
(* Diff                                                                    *)
(***************************************************************************)
\* sorted(S) of a set of path strings.
SortedPaths(S) == SortSet(S, StrLess)

\* The paths of old_files & new_files whose source_hash differs.
ChangedPaths(a, b) ==
    {p \in FileKeys(a) \cap FileKeys(b) :
        a.nodes[p].source_hash # b.nodes[p].source_hash}

\* A faulty variant of StalePaths that reports every changed path.
StalePathsAll(a, b) == ChangedPaths(a, b)

\* The changed paths whose doc_hash is the same in both trees.
StalePaths(a, b) == {p \in ChangedPaths(a, b) : a.nodes[p].doc_hash = b.nodes[p].doc_hash}

\* A faulty variant of the added list: the files of the new tree.
AddedPathsAll(a, b) == FileKeys(b)

\* new_files - old_files
AddedPaths(a, b) == FileKeys(b) \ FileKeys(a)

\* old_files - new_files
RemovedPaths(a, b) == FileKeys(a) \ FileKeys(b)

\* The body shared by MerkleTree.diff and MerkleTreeDiffer.diff; kind is
\* the Python type of the four path collections.
DiffTrees(a, b, kind) ==
    [changed |-> [kind |-> kind, items |-> SortedPaths(ChangedPaths(a, b))],
     added |-> [kind |-> kind, items |-> SortedPaths(AddedPaths(a, b))],
     removed |-> [kind |-> kind, items |-> SortedPaths(RemovedPaths(a, b))],
     stale |-> [kind |-> kind, items |-> SortedPaths(StalePaths(a, b))],
     root_changed |-> a.root_hash # b.root_hash,
     old_root_hash |-> a.root_hash,
     new_root_hash |-> b.root_hash]

\* MerkleTree.diff(self, other)
MerkleTree_diff(a, b) == DiffTrees(a, b, "list")

\* MerkleTreeDiffer.diff(old, new)
MerkleTreeDiffer_diff(a, b) == DiffTrees(a, b, "tuple")

(***************************************************************************)
(* Serialization                                                           *)
(***************************************************************************)
\* datetime.isoformat() of a UTC time, and datetime.fromisoformat back.
isoformat(dt) == <<dt.ticks, IF dt.tz = "UTC" THEN "+00:00" ELSE "">>
fromisoformat(s) == [ticks |-> s[1], tz |-> IF s[2] = "+00:00" THEN "UTC" ELSE "naive"]

\* json.dumps of a tuple or a list: a JSON array.
JsonArray(x) == x.items

\* What json.loads makes of a JSON array: a list.
FromJsonArray(items) == List(items)

\* MerkleTree.to_json: the document handed to json.dumps.
to_json(t) ==
    [version |-> 1, algorithm |-> "sha256",
     root_hash |-> t.root_hash, root_path |-> t.root_path,
     last_scan |-> isoformat(t.last_scan),
     keys |-> t.keys,
     nodes |-> [k \in DOMAIN t.nodes |->
                  [path |-> t.nodes[k].path, hash |-> t.nodes[k].hash,
                   children |-> JsonArray(t.nodes[k].children),
                   source_hash |-> t.nodes[k].source_hash,
                   doc_hash |-> t.nodes[k].doc_hash,
                   doc_path |-> t.nodes[k].doc_path,
                   stale |-> t.nodes[k].stale]]]

\* MerkleTree.from_json
from_json(obj) ==
    MerkleTree(obj.root_hash, obj.keys,
        [k \in DOMAIN obj.nodes |->
            MerkleNode(obj.nodes[k].path, obj.nodes[k].hash,
                       FromJsonArray(obj.nodes[k].children),
                       obj.nodes[k].source_hash, obj.nodes[k].doc_hash,
                       obj.nodes[k].doc_path, obj.nodes[k].stale)],
        fromisoformat(obj.last_scan), obj.root_path)

(***************************************************************************)
(* The tree life cycle: builds, disk changes, drift checks, diffs          *)
(***************************************************************************)
DiskWith(files) ==
    [p \in DiskPaths |-> IF p \in {Root \o f : f \in files} THEN File(<<1>>) ELSE Absent]

\* The projects a behaviour starts from: an empty root, two source files
\* without docs, a documented project, and one with nested and ignored
\* directories and both doc conventions.
InitialProjects ==
    { DiskWith({}),
      DiskWith({SrcMainPy, SrcUtilPy}),
      DiskWith({ReadmeMd, SrcMainPy, SrcUtilPy, RootDocMain}),
      DiskWith({ReadmeMd, SrcMainPy, DeepPy, BuildMainPy, RootDocMain, SiblingDocMain}) }

NoInput == [op |-> "none"]

\* No queue database is open.
NoQueue ==
    /\ jobs = << >>
    /\ lock = "free"
    /\ calls = << >>
    /\ returned = << >>

Init ==
    /\ disk \in InitialProjects
    /\ clock = 0
    /\ tree = None
    /\ old = None
    /\ edits = 0
    /\ dirty = FALSE
    /\ between = FALSE
    /\ saved = None
    /\ input = NoInput
    /\ result = [op |-> "init"]
    /\ NoQueue

\* Path.write_text on a file of the project.
WriteFile(p, c) ==
    /\ edits < MaxEdits
    /\ disk[p] # File(c)
    /\ disk' = [disk EXCEPT ![p] = File(c)]
    /\ edits' = edits + 1
    /\ dirty' = TRUE
    /\ result' = [op |-> "edit"]
    /\ UNCHANGED <<clock, tree, old, between, saved, input, qvars>>

\* Path.unlink on a file of the project.
DeleteFile(p) ==
    /\ edits < MaxEdits
    /\ disk[p].kind = "file"
    /\ disk' = [disk EXCEPT ![p] = Absent]
    /\ edits' = edits + 1
    /\ dirty' = TRUE
    /\ result' = [op |-> "edit"]
    /\ UNCHANGED <<clock, tree, old, between, saved, input, qvars>>

\* "tree = build(root)": the caller's tree is replaced by the new one;
\* with keep, the caller holds on to the previous tree as old.
Built(b, impl, keep) ==
    /\ clock' = clock + 1
    /\ IF b.raised = ""
          THEN /\ tree' = Some(b.tree)
               /\ old' = IF keep THEN tree ELSE old
               /\ between' = IF keep THEN dirty ELSE between
               /\ dirty' = FALSE
          ELSE UNCHANGED <<tree, old, between, dirty>>
    /\ result' = [op |-> "build", impl |-> impl, raised |-> b.raised]
    /\ UNCHANGED <<disk, edits, saved, input, qvars>>

\* tree = MerkleTree.build(root)
Build ==
    /\ clock < MaxClock
    /\ \E b \in {MerkleTree_build(disk, Root, UtcTime(clock))} : Built(b, "MerkleTree", FALSE)

\* t2 = MerkleTree.build(root) with t1, the tree built before (if any), kept
Rescan ==
    /\ clock < MaxClock
    /\ \E b \in {MerkleTree_build(disk, Root, UtcTime(clock))} : Built(b, "MerkleTree", TRUE)

\* tree = MerkleTreeBuilder.build(root)
BuilderBuild ==
    /\ clock < MaxClock
    /\ \E b \in {MerkleTreeBuilder_build(disk, Root, UtcTime(clock))} :
          Built(b, "MerkleTreeBuilder", FALSE)

Checked(r, impl) ==
    /\ tree' = Some(r.tree)
    /\ result' = [op |-> "check_drift", impl |-> impl, raised |-> r.raised, value |-> r.value]
    /\ UNCHANGED <<disk, clock, old, edits, dirty, between, saved, input, qvars>>

\* tree.check_drift()
CheckDrift ==
    /\ tree.some
    /\ \E r \in {MerkleTree_check_drift(tree.v, disk)} : Checked(r, "MerkleTree")

\* MerkleTreeDiffer.check_drift(tree)
DifferCheckDrift ==
    /\ tree.some
    /\ \E r \in {MerkleTreeDiffer_check_drift(tree.v, disk)} : Checked(r, "MerkleTreeDiffer")

\* old.diff(tree)
TreeDiff ==
    /\ old.some /\ tree.some
    /\ result' = [op |-> "diff", impl |-> "MerkleTree", value |-> MerkleTree_diff(old.v, tree.v)]
    /\ UNCHANGED <<disk, clock, tree, old, edits, dirty, between, saved, input, qvars>>

\* MerkleTreeDiffer.diff(old, tree)
DifferDiff ==
    /\ old.some /\ tree.some
    /\ result' = [op |-> "diff", impl |-> "MerkleTreeDiffer",
                  value |-> MerkleTreeDiffer_diff(old.v, tree.v)]
    /\ UNCHANGED <<disk, clock, tree, old, edits, dirty, between, saved, input, qvars>>

\* MerkleTree.from_json(tree.to_json())
RoundTrip ==
    /\ tree.some
    /\ result' = [op |-> "from_json", value |-> from_json(to_json(tree.v))]
    /\ UNCHANGED <<disk, clock, tree, old, edits, dirty, between, saved, input, qvars>>

\* The files the model's user writes and deletes: two sources and a doc.
EditablePaths == {Root \o f : f \in {SrcMainPy, SrcUtilPy, RootDocMain}}

Edit ==
    \/ \E p \in EditablePaths, c \in Contents : WriteFile(p, c)
    \/ \E p \in EditablePaths : DeleteFile(p)

\* Builds, disk changes, drift checks and serialization of one tree.
Next ==
    \/ Edit
    \/ Build
    \/ CheckDrift
    \/ DifferCheckDrift
    \/ RoundTrip

Spec == Init /\ [][Next]_vars

\* Two trees built at different times, and their diff; the disk changes
\* as long as a build is still to come.
NextDiff ==
    \/ (clock < MaxClock /\ Edit)
    \/ Rescan
    \/ TreeDiff
    \/ DifferDiff

SpecDiff == Init /\ [][NextDiff]_vars

\* The stand-alone builder.
NextBuilder ==
    \/ Edit
    \/ BuilderBuild
    \/ RoundTrip

SpecBuilder == Init /\ [][NextBuilder]_vars

\* Builds of MerkleTree.build over a changing disk.
NextBuild ==
    \/ Edit
    \/ Build

SpecBuild == Init /\ [][NextBuild]_vars

(***************************************************************************)
(* Freshness: the persisted tree and check_staleness                       *)
(***************************************************************************)
\* The bytes json.dumps makes of a tree document: they change with the root
\* hash, the scan time and every node's hash, doc hash and stale flag.
JsonBytes(doc) ==
    EncodeHex(doc.root_hash) \o <<doc.last_scan[1]>>
        \o Concat([i \in 1..Len(doc.keys) |->
              LET n == doc.nodes[doc.keys[i]]
              IN  EncodeHex(n.hash)
                    \o (IF n.doc_hash.some THEN EncodeHex(n.doc_hash.v) ELSE << >>)
                    \o <<IF n.stale THEN 1 ELSE 0>>])

\* _tree_path(project_path)
tree_path(project_path) == project_path \o TreeFile

\* _load_or_build_tree: the saved tree with root_path patched, or a new build.
load_or_build_tree(project_path, fs, doc, now) ==
    IF is_file(tree_path(project_path), fs)
        THEN [from_json(doc.v) EXCEPT !.root_path = AbsStr(resolve(<< >>, project_path, fs))]
    ELSE MerkleTree_build(fs, resolve(<< >>, project_path, fs), now).tree

\* PurePath.match("*.tech.md") on the last part of a path.
IsTechMd(parts) ==
    LET name == NameOf(parts)
    IN  Len(name) >= Len(TechMd)
        /\ SubSeq(name, Len(name) - Len(TechMd) + 1, Len(name)) = TechMd

\* _collect_tech_md_files: every *.tech.md entry below project_path/doc_dir,
\* relative to project_path.
collect_tech_md_files(project_path, doc_dir, fs) ==
    {StrOf(RelativeTo(p, project_path)) :
        p \in {q \in DOMAIN fs :
                 /\ fs[q].kind # "none"
                 /\ IsUnder(q, project_path \o PathOf(doc_dir))
                 /\ q # project_path \o PathOf(doc_dir)
                 /\ IsTechMd(q)}}

\* file_nodes: the nodes with a source_hash, in dict order.
FileNodeKeys(t) == SelectSeq(t.keys, LAMBDA k : t.nodes[k].source_hash.some)

\* The stale loop: a StaleEntry for every file node on disk whose current
\* hash is not the recorded one.
StaleEntries(t, project_path, fs) ==
    LET hit == SelectSeq(FileNodeKeys(t),
                 LAMBDA k : /\ is_file(project_path \o PathOf(k), fs)
                            /\ compute_file_hash(project_path \o PathOf(k), fs)
                                  # t.nodes[k].source_hash.v)
    IN  [i \in 1..Len(hit) |->
            [source_path |-> t.nodes[hit[i]].path,
             doc_path |-> t.nodes[hit[i]].doc_path,
             current_hash |-> compute_file_hash(project_path \o PathOf(hit[i]), fs),
             recorded_hash |-> t.nodes[hit[i]].source_hash.v]]

\* A faulty variant of Uncovered that lists files no longer on disk as well.
UncoveredNoFileCheck(t, project_path, fs) ==
    SortedPaths({t.nodes[k].path : k \in {j \in FileKeys(t) : ~t.nodes[j].doc_path.some}})

\* uncovered: sorted paths of the file nodes without doc_path still on disk.
Uncovered(t, project_path, fs) ==
    SortedPaths({t.nodes[k].path :
        k \in {j \in FileKeys(t) :
                 /\ ~t.nodes[j].doc_path.some
                 /\ is_file(project_path \o PathOf(t.nodes[j].path), fs)}})

\* referenced_docs: the doc_path of every file node that has one.
ReferencedDocs(t) ==
    {t.nodes[k].doc_path.v : k \in {j \in FileKeys(t) : t.nodes[j].doc_path.some}}

\* check_staleness(project_path): the StalenessReport, and the tree the call
\* worked on (its local variable tree).
check_staleness(project_path, fs, doc, now) ==
    LET root == resolve(<< >>, project_path, fs)
        Report(t, all_tech_md) ==
          [tree |-> t,
           report |->
             [stale |-> StaleEntries(t, root, fs),
              uncovered |-> Uncovered(t, root, fs),
              orphaned |-> SortedPaths(all_tech_md \ ReferencedDocs(t)),
              total_files |-> Cardinality({k \in FileKeys(t) : is_file(root \o PathOf(k), fs)}),
              total_docs |-> Cardinality(ReferencedDocs(t) \cap all_tech_md)]]
    IN  CHOOSE r \in {Report(t, all_tech_md) :
                        t \in {load_or_build_tree(root, fs, doc, now)},
                        all_tech_md \in {collect_tech_md_files(root, DocDir, fs)}} : TRUE

\* build_merkle(project_path): tree = MerkleTree.build(...); tree.save(...)
BuildMerkle ==
    /\ clock < MaxClock
    /\ \E b \in {MerkleTree_build(disk, Root, UtcTime(clock))} :
          /\ b.raised = ""
          /\ clock' = clock + 1
          /\ tree' = Some(b.tree)
          /\ \E doc \in {to_json(b.tree)} :
                /\ saved' = Some(doc)
                /\ disk' = [disk EXCEPT ![tree_path(Root)] = File(JsonBytes(doc))]
          /\ dirty' = FALSE
          /\ result' = [op |-> "build_merkle"]
          /\ UNCHANGED <<old, edits, between, input, qvars>>

\* report = check_staleness(root)
CheckStaleness ==
    /\ \E r \in {check_staleness(Root, disk, saved, UtcTime(clock))} :
          result' = [op |-> "check_staleness", tree |-> r.tree, value |-> r.report]
    /\ UNCHANGED <<disk, clock, tree, old, edits, dirty, between, saved, input, qvars>>

NextFresh ==
    \/ Edit
    \/ BuildMerkle
    \/ CheckStaleness

\* The freshness report is taken over the project of two undocumented
\* sources; writing .chronicler/src-main.tech.md documents one of them.
InitFresh == Init /\ disk = DiskWith({SrcMainPy, SrcUtilPy})

SpecFresh == InitFresh /\ [][NextFresh]_vars


(***************************************************************************)
(* Pure functions applied to drawn inputs                                  *)
(***************************************************************************)
\* The state of the variables a pure function does not touch.
Idle ==
    /\ clock = 0
    /\ tree = None
    /\ old = None
    /\ edits = 0
    /\ dirty = FALSE
    /\ between = FALSE
    /\ saved = None
    /\ result = [op |-> "init"]
    /\ NoQueue

\* The digests the folds are fed: those of the empty and the written contents.
Digests == {compute_hash(c) : c \in Contents \cup {<< >>}}

Perms(n) == {f \in [1..n -> 1..n] : \A i, j \in 1..n : f[i] = f[j] => i = j}

Permuted(seq, perm) == [i \in 1..Len(seq) |-> seq[perm[i]]]

InitFold ==
    /\ Idle
    /\ disk = DiskWith({})
    /\ input \in UNION {
          {[op |-> "fold", child_hashes |-> h, perm |-> f] :
              h \in [1..n -> Digests], f \in Perms(n)} : n \in 0..MaxChildren}

\* compute_merkle_hash(child_hashes), and again on the same hashes reordered
Fold ==
    /\ result.op = "init"
    /\ result' = [op |-> "fold",
                  value |-> compute_merkle_hash(input.child_hashes),
                  permuted |-> compute_merkle_hash(Permuted(input.child_hashes, input.perm))]
    /\ UNCHANGED <<disk, clock, tree, old, edits, dirty, between, saved, input, qvars>>

SpecFold == InitFold /\ [][Fold]_vars

\* What a doc candidate's place on disk may hold: nothing, a file, a symlink
\* to a file outside the root, a symlink to a file inside it.
DocEntries == {Absent, File(<<1>>), Link(EvilDoc), Link(Root \o ReadmeMd)}

\* Source paths handed to _find_doc_for_source: a plain one, two that climb
\* out of the root, the empty path and "..".
SourceRels ==
    { <<"src", "/", "main", ".", "py">>,
      <<"..", "/", "outside", "/", "evil">>,
      <<"src", "/", "..", "/", "..", "/", "outside", "/", "evil">>,
      EmptyStr,
      <<"..">> }

InitFind ==
    /\ Idle
    /\ \E sib \in DocEntries, rootdoc \in DocEntries, evil \in {Absent, File(<<1>>)} :
          disk = [DiskWith({ReadmeMd, SrcMainPy}) EXCEPT
                     ![Root \o SiblingDocMain] = sib,
                     ![Root \o RootDocMain] = rootdoc,
                     ![EvilDoc] = evil]
    /\ input \in {[op |-> "find_doc", source_rel |-> r] : r \in SourceRels}

\* _find_doc_for_source(source_rel, ".chronicler", root)
FindDoc ==
    /\ result.op = "init"
    /\ \E r \in {find_doc_for_source(input.source_rel, DocDir, Root, disk)} :
          result' = [op |-> "find_doc", raised |-> r.raised, doc |-> r.doc]
    /\ UNCHANGED <<disk, clock, tree, old, edits, dirty, between, saved, input, qvars>>

SpecFind == InitFind /\ [][FindDoc]_vars

(***************************************************************************)
(* Blast radius                                                            *)
(***************************************************************************)
\* The component ids of the model in ascending str order; "" is the target
\* of an edge without one.
CompOrder == <<"auth-service", "db-layer", "my-app", "web-ui">>
Comps == Range(CompOrder)
CompLess(c, d) ==
    (CHOOSE i \in 1..Len(CompOrder) : CompOrder[i] = c)
        < (CHOOSE i \in 1..Len(CompOrder) : CompOrder[i] = d)

\* The (component, target) pairs of graph: component_id -> targets of its edges.
EdgePairs(graph) == UNION {{<<c, t>> : t \in graph[c]} : c \in DOMAIN graph}

\* A faulty variant of AllTargets that follows edges forward only.
AllTargetsDirected(graph) ==
    LET pairs == {e \in EdgePairs(graph) : e[2] # ""}
    IN  [k \in {e[1] : e \in pairs} |-> {e[2] : e \in {x \in pairs : x[1] = k}}]

\* all_targets: every edge with a target links comp to target and target to comp.
AllTargets(graph) ==
    LET pairs == {e \in EdgePairs(graph) : e[2] # ""}
    IN  [k \in {e[1] : e \in pairs} \cup {e[2] : e \in pairs} |->
            {e[2] : e \in {x \in pairs : x[1] = k}}
                \cup {e[1] : e \in {x \in pairs : x[2] = k}}]

\* all_targets.get(comp, set())
GetTargets(all_targets, comp) ==
    IF comp \in DOMAIN all_targets THEN all_targets[comp] ELSE {}

\* "for _ in range(depth)": one level per round, each the sorted list of the
\* neighbours of the frontier not visited before.
RECURSIVE Walk(_, _, _, _, _)
Walk(all_targets, visited, frontier, levels, rounds) ==
    IF rounds <= 0 THEN levels
    ELSE LET next == UNION {GetTargets(all_targets, c) : c \in frontier} \ visited
         IN  Walk(all_targets, visited \cup next, next,
                  Append(levels, SortSet(next, CompLess)), rounds - 1)

\* The levels blast_radius prints for start_component.
blast_levels(graph, start_component, depth) ==
    Walk(AllTargets(graph), {start_component}, {start_component}, << >>, depth)

\* Every edge a graph of the model may hold.
Edges == Comps \X (Comps \cup {""})

RECURSIVE EdgeSets(_)
EdgeSets(k) ==
    IF k = 0 THEN {{}}
    ELSE LET fewer == EdgeSets(k - 1)
         IN  fewer \cup {E \cup {e} : E \in fewer, e \in Edges}

GraphOf(E) == [c \in {e[1] : e \in E} |-> {e[2] : e \in {x \in E : x[1] = c}}]

InitBlast ==
    /\ Idle
    /\ disk = DiskWith({})
    /\ input \in {[op |-> "blast_radius", graph |-> GraphOf(E), start |-> c, depth |-> d] :
                    E \in EdgeSets(MaxEdgeCount), c \in Comps, d \in 0..MaxDepth}

\* chronicler blast-radius --changed ... --depth d, from the start component on
BlastRadius ==
    /\ result.op = "init"
    /\ result' = [op |-> "blast_radius",
                  value |-> blast_levels(input.graph, input.start, input.depth)]
    /\ UNCHANGED <<disk, clock, tree, old, edits, dirty, between, saved, input, qvars>>

SpecBlast == InitBlast /\ [][BlastRadius]_vars

(***************************************************************************)
(* Claims                                                                  *)
(***************************************************************************)
\* The paths of a sequence of nodes.
PathsOf(nodeSeq) == {nodeSeq[i].path : i \in 1..Len(nodeSeq)}

\* The file at a node's path is on disk, and its content hash.
OnDisk(k) == is_file(Root \o PathOf(k), disk)
DiskHash(k) == compute_hash(read_bytes(Root \o PathOf(k), disk))

\* C1: tree.check_drift() returns exactly the file nodes whose file is on
\* disk with a content hash other than the stored source_hash, each with
\* stale = true and flagged in the tree, and flags no node it does not
\* return; deleted files and directory nodes are not returned.
C1_CheckDriftExact ==
    (result.op = "check_drift" /\ result.impl = "MerkleTree") =>
        /\ result.raised = ""
        /\ Len(result.value) = Cardinality(PathsOf(result.value))
        /\ PathsOf(result.value) =
              {k \in DOMAIN tree.v.nodes :
                  /\ tree.v.nodes[k].source_hash.some
                  /\ OnDisk(k)
                  /\ DiskHash(k) # tree.v.nodes[k].source_hash.v}
        /\ \A i \in 1..Len(result.value) :
              result.value[i].stale /\ tree.v.nodes[result.value[i].path].stale

\* The files of a tree, read off its nodes.
HasFile(t, p) == p \in DOMAIN t.nodes /\ t.nodes[p].source_hash.some

\* C2: diff(old, new) has added = file paths of new only, removed = file
\* paths of old only, changed = file paths of both with different
\* source_hash, stale = the changed paths whose doc_hash is equal in both
\* trees, and root_changed exactly when the root hashes differ.
C2_DiffClassifies ==
    result.op = "diff" =>
        LET d == result.value
            a == old.v
            b == tree.v
        IN  /\ \A p \in DOMAIN a.nodes \cup DOMAIN b.nodes :
                /\ p \in Range(d.added.items) <=> (HasFile(b, p) /\ ~HasFile(a, p))
                /\ p \in Range(d.removed.items) <=> (HasFile(a, p) /\ ~HasFile(b, p))
                /\ p \in Range(d.changed.items) <=>
                      /\ HasFile(a, p) /\ HasFile(b, p)
                      /\ a.nodes[p].source_hash.v # b.nodes[p].source_hash.v
                /\ p \in Range(d.stale.items) <=>
                      /\ p \in Range(d.changed.items)
                      /\ a.nodes[p].doc_hash = b.nodes[p].doc_hash
            /\ Range(d.added.items) \cup Range(d.removed.items) \cup Range(d.changed.items)
                   \cup Range(d.stale.items) \subseteq DOMAIN a.nodes \cup DOMAIN b.nodes
            /\ d.root_changed <=> (a.root_hash # b.root_hash)

\* A changed source whose doc changed too: in changed, not in stale; next
\* to it nothing else is needed.
C2_Witness ==
    /\ result.op = "diff"
    /\ result.value.changed.items # << >>
    /\ result.value.stale.items = << >>
    /\ result.value.root_changed

\* C3: diff(A, B).added = diff(B, A).removed and diff(A, B).removed =
\* diff(B, A).added.
C3_DiffSymmetry ==
    result.op = "diff" =>
        LET back == IF result.impl = "MerkleTree" THEN MerkleTree_diff(tree.v, old.v)
                    ELSE MerkleTreeDiffer_diff(tree.v, old.v)
        IN  /\ result.value.added = back.removed
            /\ result.value.removed = back.added

C3_Witness ==
    /\ result.op = "diff"
    /\ result.value.added.items # << >>
    /\ result.value.removed.items # << >>
    /\ FileKeys(old.v) \cap FileKeys(tree.v) # {}

\* C4: two builds of the same root with no disk change in between have the
\* same root_hash and the same hash at every node path, and their diff has
\* no changed, added or removed path and root_changed = false.
C4_BuildDeterministic ==
    (old.some /\ tree.some /\ ~between) =>
        /\ old.v.root_hash = tree.v.root_hash
        /\ DOMAIN old.v.nodes = DOMAIN tree.v.nodes
        /\ \A k \in DOMAIN tree.v.nodes : old.v.nodes[k].hash = tree.v.nodes[k].hash
        /\ result.op = "diff" =>
              /\ result.value.changed.items = << >>
              /\ result.value.added.items = << >>
              /\ result.value.removed.items = << >>
              /\ ~result.value.root_changed

C4_Witness ==
    /\ old.some /\ tree.some /\ ~between
    /\ old.v.last_scan # tree.v.last_scan
    /\ FileKeys(tree.v) # {}
    /\ result.op = "diff"

\* C6: from_json(to_json(tree)) has the same root_hash, root_path,
\* last_scan and node keys as tree, and every node has the same path, hash,
\* children, source_hash, doc_hash, doc_path and stale.
C6_RoundTrip ==
    result.op = "from_json" =>
        LET r == result.value
            t == tree.v
        IN  /\ r.root_hash = t.root_hash
            /\ r.root_path = t.root_path
            /\ r.last_scan = t.last_scan
            /\ DOMAIN r.nodes = DOMAIN t.nodes
            /\ \A k \in DOMAIN t.nodes :
                  /\ r.nodes[k].path = t.nodes[k].path
                  /\ r.nodes[k].hash = t.nodes[k].hash
                  /\ r.nodes[k].children = t.nodes[k].children
                  /\ r.nodes[k].source_hash = t.nodes[k].source_hash
                  /\ r.nodes[k].doc_hash = t.nodes[k].doc_hash
                  /\ r.nodes[k].doc_path = t.nodes[k].doc_path
                  /\ r.nodes[k].stale = t.nodes[k].stale

\* No entry of the disk lies under the root.
EmptyRoot == \A p \in InsidePaths : disk[p].kind = "none"

\* C7: a build over an empty root directory gives a tree whose only node is
\* the root node at path "" with hash digest(""), whose root_hash is that
\* value, and which has no file node.
C7_EmptyRootNode ==
    (result.op = "build" /\ result.raised = "" /\ EmptyRoot) =>
        /\ DOMAIN tree.v.nodes = {EmptyStr}
        /\ tree.v.nodes[EmptyStr].hash = compute_hash(<< >>)
        /\ tree.v.root_hash = compute_hash(<< >>)
        /\ FileKeys(tree.v) = {}

\* C5: compute_merkle_hash returns the same parent hash for a sequence of
\* child digests and for every permutation of it.
C5_FoldOrderIndependent ==
    result.op = "fold" => result.value = result.permuted

C5_Witness ==
    /\ result.op = "fold"
    /\ Len(input.child_hashes) = MaxChildren
    /\ Cardinality(Range(input.child_hashes)) > 1
    /\ Permuted(input.child_hashes, input.perm) # input.child_hashes
    /\ result.value = result.permuted

\* The two places _find_doc_for_source looks at for the drawn source path.
Candidates ==
    {SiblingCandidate(input.source_rel, DocDir, Root),
     RootCandidate(input.source_rel, DocDir, Root)}

\* A file can be read through the candidate, at a place outside the root.
Escapes(candidate) ==
    /\ is_file(candidate, disk)
    /\ ~IsUnder(resolve(<< >>, candidate, disk), Root)

\* C8: _find_doc_for_source never returns a document that resolves to a
\* place outside the root, whatever the source path and whatever the
\* candidate is (a path with ".." segments, a symlink pointing outside),
\* even though a file is there; a candidate that escapes is no match and
\* raises nothing.
C8_TraversalGuard ==
    result.op = "find_doc" =>
        /\ result.doc.some => IsUnder(resolve(<< >>, result.doc.v, disk), Root)
        /\ \A c \in Candidates :
              Escapes(c) => (result.raised = "" /\ result.doc # Some(c))

C8_Witness ==
    /\ result.op = "find_doc"
    /\ input.source_rel = <<"..", "/", "outside", "/", "evil">>
    /\ Escapes(SiblingCandidate(input.source_rel, DocDir, Root))
    /\ result.raised = ""
    /\ ~result.doc.some

\* The project of the scenario: src/main.py and src/util.py, nothing else.
TwoSourcesOnly == \A p \in DOMAIN disk :
    disk[p].kind # "none" <=> p \in {Root \o SrcMainPy, Root \o SrcUtilPy}

\* C9: check_staleness lists as uncovered exactly the file nodes of its tree
\* that have no doc_path and whose file is on disk; over a project holding
\* only src/main.py and src/util.py the tree has the nodes "", "src",
\* "src/main.py" and "src/util.py", none with a doc_path, both files are
\* uncovered and nothing is stale.
C9_Uncovered ==
    result.op = "check_staleness" =>
        \A t \in {result.tree} :
            /\ Range(result.value.uncovered) =
                  {k \in DOMAIN t.nodes :
                      /\ t.nodes[k].source_hash.some
                      /\ ~t.nodes[k].doc_path.some
                      /\ OnDisk(k)}
            /\ Len(result.value.uncovered) = Cardinality(Range(result.value.uncovered))
            /\ TwoSourcesOnly =>
                  /\ DOMAIN t.nodes = {EmptyStr, <<"src">>, StrOf(SrcMainPy), StrOf(SrcUtilPy)}
                  /\ \A k \in DOMAIN t.nodes : ~t.nodes[k].doc_path.some
                  /\ result.value.uncovered = <<StrOf(SrcMainPy), StrOf(SrcUtilPy)>>
                  /\ result.value.stale = << >>

C9_Witness ==
    /\ result.op = "check_staleness"
    /\ TwoSourcesOnly
    /\ result.value.uncovered = <<StrOf(SrcMainPy), StrOf(SrcUtilPy)>>
    /\ result.value.total_files = 2

\* Two components are linked when an edge with a target joins them, in
\* either direction.
Linked(graph, c, d) ==
    /\ c # "" /\ d # ""
    /\ \/ c \in DOMAIN graph /\ d \in graph[c]
       \/ d \in DOMAIN graph /\ c \in graph[d]

\* The components within k hops of start.
RECURSIVE Within(_, _, _)
Within(graph, start, k) ==
    IF k = 0 THEN {start}
    ELSE LET near == Within(graph, start, k - 1)
         IN  near \cup {d \in Comps : \E c \in near : Linked(graph, c, d)}

\* The graph my-app -> auth-service -> db-layer.
ChainGraph ==
    [c \in {"my-app", "auth-service"} |->
        IF c = "my-app" THEN {"auth-service"} ELSE {"db-layer"}]

\* C10: the levels of a blast radius are those of a breadth-first search
\* of depth rounds over the edges taken in both directions: level i holds,
\* in sorted order and once each, exactly the components whose least
\* distance from the start is i, so neither the start nor a component
\* farther than depth appears; for my-app -> auth-service -> db-layer,
\* depth 2 from my-app gives auth-service at hop 1 and db-layer at hop 2
\* and depth 1 gives no db-layer.
C10_BlastRadius ==
    result.op = "blast_radius" =>
        LET lv == result.value
        IN  /\ Len(lv) = input.depth
            /\ \A i \in 1..Len(lv) :
                  /\ Range(lv[i]) = Within(input.graph, input.start, i)
                                       \ Within(input.graph, input.start, i - 1)
                  /\ \A j, k \in 1..Len(lv[i]) : j < k => CompLess(lv[i][j], lv[i][k])
            /\ (input.graph = ChainGraph /\ input.start = "my-app") =>
                  /\ input.depth = 2 => lv = << <<"auth-service">>, <<"db-layer">> >>
                  /\ input.depth = 1 => lv = << <<"auth-service">> >>

C10_Witness ==
    /\ result.op = "blast_radius"
    /\ input.graph = ChainGraph
    /\ input.start = "db-layer"
    /\ input.depth = 2
    /\ result.value = << <<"auth-service">>, <<"my-app">> >>

\* C11: immediately after a check_drift call (MerkleTreeDiffer.check_drift,
\* the one that can set the flag), every file node whose file is on disk has
\* stale = true exactly when the file's current content hash differs from
\* the node's source_hash; a file modified, flagged and then restored to its
\* recorded content is no longer flagged.
C11_StaleTracksDisk ==
    (result.op = "check_drift" /\ result.impl = "MerkleTreeDiffer") =>
        \A k \in FileKeys(tree.v) :
            OnDisk(k) =>
                (tree.v.nodes[k].stale <=> DiskHash(k) # tree.v.nodes[k].source_hash.v)

\* The files a build over the disk tracks: the files under the root with no
\* ignored part, relative to the root.
TrackedFiles ==
    {RelativeTo(p, Root) :
        p \in {q \in DOMAIN disk :
                 /\ disk[q].kind = "file"
                 /\ IsUnder(q, Root) /\ q # Root
                 /\ ~matches_any(RelativeTo(q, Root), DEFAULT_IGNORE)}}

\* The key of the nodes dict for a relative path; the root's key is "".
KeyOf(parts) == IF parts = << >> THEN EmptyStr ELSE JoinWith(parts, "/")

\* The immediate tracked children of directory dir: the files in it and the
\* directories in it that hold a tracked file.
TrackedChildren(dir) ==
    {KeyOf(SubSeq(f, 1, Len(dir) + 1)) :
        f \in {g \in TrackedFiles : Len(g) > Len(dir) /\ SubSeq(g, 1, Len(dir)) = dir}}

\* The proper ancestor directories of the tracked files, the root included.
TrackedDirs == UNION {{SubSeq(f, 1, n) : n \in 0..(Len(f) - 1)} : f \in TrackedFiles}

\* C12: in a tree returned by build, every proper ancestor directory of
\* every file node (the root "" included) has a node, also a directory
\* holding only subdirectories; the directory nodes are exactly those
\* ancestors, and each one's children is the duplicate-free, sorted
\* sequence of exactly its immediate tracked children.
C12_AncestorsAndChildren ==
    (result.op = "build" /\ result.raised = "") =>
        LET t == tree.v
        IN  /\ FileKeys(t) = {KeyOf(f) : f \in TrackedFiles}
            /\ \A f \in TrackedFiles : \A n \in 0..(Len(f) - 1) :
                  KeyOf(SubSeq(f, 1, n)) \in DOMAIN t.nodes \ FileKeys(t)
            /\ \A d \in DOMAIN t.nodes \ FileKeys(t) :
                  \E dir \in TrackedDirs :
                      /\ d = KeyOf(dir)
                      /\ Range(t.nodes[d].children.items) = TrackedChildren(dir)
                      /\ \A i, j \in 1..Len(t.nodes[d].children.items) :
                            i < j => StrLess(t.nodes[d].children.items[i],
                                             t.nodes[d].children.items[j])

\* The project with a/b/deep.py: "a" holds only the subdirectory "a/b", and
\* the root lists each of its directories once.
C12_Witness ==
    /\ result.op = "build" /\ result.raised = ""
    /\ <<"a">> \in DOMAIN tree.v.nodes
    /\ tree.v.nodes[<<"a">>].children.items = << <<"a", "/", "b">> >>
    /\ tree.v.nodes[<<"a", "/", "b">>].children.items = << StrOf(DeepPy) >>
    /\ <<"src">> \in Range(tree.v.nodes[EmptyStr].children.items)

\* The immediate tracked children of directory dir, as paths.
ChildParts(dir) ==
    {SubSeq(f, 1, Len(dir) + 1) :
        f \in {g \in TrackedFiles : Len(g) > Len(dir) /\ SubSeq(g, 1, Len(dir)) = dir}}

\* The hash the disk gives a tracked path: a file's content hash, a
\* directory's fold of the hashes of its children.
RECURSIVE MerkleOf(_)
MerkleOf(parts) ==
    IF parts \in TrackedFiles THEN compute_hash(disk[Root \o parts].data)
    ELSE LET kids == SortSet(ChildParts(parts), PathLess)
         IN  compute_merkle_hash([i \in 1..Len(kids) |-> MerkleOf(kids[i])])

\* C13: a build over a root with at least one tracked file succeeds; each
\* directory node's hash is compute_merkle_hash of the final hashes of
\* exactly its children (so it is the fold of the whole subtree on disk),
\* each file node's hash is its source_hash, and root_hash = nodes[""].hash.
C13_HashesFold ==
    (result.op = "build" /\ TrackedFiles # {}) =>
        /\ result.raised = ""
        /\ LET t == tree.v
           IN  /\ \A k \in FileKeys(t) :
                     /\ t.nodes[k].hash = t.nodes[k].source_hash.v
                     /\ t.nodes[k].hash = DiskHash(k)
               /\ \A d \in DOMAIN t.nodes \ FileKeys(t) :
                     /\ t.nodes[d].hash =
                           compute_merkle_hash(
                               [i \in 1..Len(t.nodes[d].children.items) |->
                                   t.nodes[t.nodes[d].children.items[i]].hash])
                     /\ t.nodes[d].hash = MerkleOf(PathOf(d))
               /\ EmptyStr \in DOMAIN t.nodes
               /\ t.root_hash = t.nodes[EmptyStr].hash

\* A build over the nested project: "a" is folded from "a/b", which is
\* folded from a/b/deep.py, and the root from its four children.
C13_Witness ==
    /\ result.op = "build" /\ result.raised = ""
    /\ <<"a", "/", "b">> \in DOMAIN tree.v.nodes
    /\ tree.v.nodes[<<"a">>].hash
           = compute_merkle_hash(<< tree.v.nodes[<<"a", "/", "b">>].hash >>)
    /\ Len(tree.v.nodes[EmptyStr].children.items) = 4
    /\ tree.v.root_hash = tree.v.nodes[EmptyStr].hash

(***************************************************************************)
(* Node construction, update_node and loading a tree document              *)
(***************************************************************************)
\* Characters of a hash argument: 0..15 are "0".."9", "a".."f", 16..21 are
\* "A".."F", anything above is another letter.
UpperHex == [i \in 1..HashLen |-> 16 + (i % 6)]     \* twelve uppercase hex letters
NotHex == <<30, 31, 32, 33, 14, 34>>                \* "nothex"
ShortHex == <<10, 10, 11, 11>>                      \* "aabb"
LongHex == compute_hash(<<1>>) \o <<0>>             \* thirteen hex characters

\* The hash arguments handed to MerkleNode, update_node and a tree document.
HashArgs == {compute_hash(<<2>>), UpperHex, NotHex, ShortHex, LongHex, EmptyStr}

\* MerkleNode(path=..., hash=...): __post_init__ raises ValueError unless
\* the hash is twelve characters of [a-f0-9].
NewMerkleNode(path, hash, children, source_hash, doc_hash, doc_path, stale) ==
    IF ~IsHex12(hash) THEN [raised |-> "ValueError", node |-> None]
    ELSE [raised |-> "",
          node |-> Some(MerkleNode(path, hash, children, source_hash, doc_hash, doc_path, stale))]

\* A faulty variant of update_node that ignores a path without a node.
update_node_silent(t, path, source_hash, doc_hash) ==
    IF path \notin DOMAIN t.nodes THEN [raised |-> "", tree |-> t]
    ELSE [raised |-> "FrozenInstanceError", tree |-> t]

\* MerkleTree.update_node: KeyError for a path without a node; for a known
\* path "node.source_hash = source_hash" assigns to a field of the frozen
\* dataclass and raises FrozenInstanceError before anything is changed.
update_node(t, path, source_hash, doc_hash) ==
    IF path \notin DOMAIN t.nodes THEN [raised |-> "KeyError", tree |-> t]
    ELSE [raised |-> "FrozenInstanceError", tree |-> t]

\* MerkleTree.from_json on any document: the first node whose hash
\* MerkleNode rejects ends the call with ValueError.
MerkleTree_from_json(obj) ==
    IF \E k \in DOMAIN obj.nodes : ~IsHex12(obj.nodes[k].hash)
        THEN [raised |-> "ValueError", tree |-> None]
    ELSE [raised |-> "", tree |-> Some(from_json(obj))]

\* MerkleNode(path="x", hash=h)
NewNode ==
    /\ \E h \in HashArgs :
          /\ input' = [op |-> "new_node", hash |-> h]
          /\ \E r \in {NewMerkleNode(<<"x">>, h, Tuple(<< >>), None, None, None, FALSE)} :
                result' = [op |-> "new_node", raised |-> r.raised, node |-> r.node]
    /\ UNCHANGED <<disk, clock, tree, old, edits, dirty, between, saved, qvars>>

\* The paths update_node is called with: two files, a directory, no node.
NodePaths == {StrOf(SrcMainPy), StrOf(SrcUtilPy), <<"src">>, <<"nonexistent", ".", "py">>}

\* tree.update_node(path, source_hash=h)
UpdateNode ==
    /\ tree.some
    /\ \E p \in NodePaths, h \in HashArgs :
          /\ input' = [op |-> "update_node", path |-> p, hash |-> h]
          /\ \E r \in {update_node(tree.v, p, h, None)} :
                /\ tree' = Some(r.tree)
                /\ result' = [op |-> "update_node", raised |-> r.raised]
    /\ UNCHANGED <<disk, clock, old, edits, dirty, between, saved, qvars>>

\* loaded = MerkleTree.from_json(text), the text being tree.to_json() with
\* the hash of one node replaced.
LoadJson ==
    /\ tree.some
    /\ \E k \in DOMAIN tree.v.nodes, h \in HashArgs :
          /\ input' = [op |-> "load_json", path |-> k, hash |-> h]
          /\ \E r \in {MerkleTree_from_json([to_json(tree.v) EXCEPT !.nodes[k].hash = h])} :
                result' = [op |-> "load_json", raised |-> r.raised, tree |-> r.tree]
    /\ UNCHANGED <<disk, clock, tree, old, edits, dirty, between, saved, qvars>>

\* src/main.py is rewritten.
Touch == \E c \in Contents : WriteFile(Root \o SrcMainPy, c)

NextNode ==
    \/ Touch
    \/ Build
    \/ DifferCheckDrift
    \/ UpdateNode
    \/ LoadJson
    \/ NewNode

\* Node hashes are followed over the project of two sources.
InitNode == Init /\ disk = DiskWith({SrcMainPy, SrcUtilPy})

SpecNode == InitNode /\ [][NextNode]_vars

\* Twelve characters, each one of 0-9 or a-f.
WellFormedDigest(h) == Len(h) = 12 /\ \A i \in 1..Len(h) : h[i] >= 0 /\ h[i] <= 15

\* C14: every node of every tree the caller holds (after build, from_json,
\* check_drift, update_node with any argument) has a hash of exactly 12
\* lowercase hex characters; MerkleNode with any other hash raises
\* ValueError, with such a hash it returns the node, and a document with a
\* bad hash is not loaded.
C14_HashesValid ==
    /\ tree.some => \A k \in DOMAIN tree.v.nodes : WellFormedDigest(tree.v.nodes[k].hash)
    /\ result.op = "new_node" =>
          /\ result.raised = "ValueError" <=> ~WellFormedDigest(input.hash)
          /\ result.raised = "" <=> WellFormedDigest(input.hash)
          /\ result.node.some <=> result.raised = ""
          /\ result.node.some => result.node.v.hash = input.hash
    /\ result.op = "load_json" =>
          /\ result.raised = "ValueError" <=> ~WellFormedDigest(input.hash)
          /\ result.tree.some <=> result.raised = ""
          /\ result.tree.some =>
                \A k \in DOMAIN result.tree.v.nodes :
                    WellFormedDigest(result.tree.v.nodes[k].hash)

\* update_node was called on a node of the tree with a hash that is no
\* digest, after a drift check flagged a node.
C14_Witness ==
    /\ result.op = "update_node"
    /\ input.path \in DOMAIN tree.v.nodes
    /\ ~WellFormedDigest(input.hash)
    /\ \E k \in DOMAIN tree.v.nodes : tree.v.nodes[k].stale

(***************************************************************************)
(* Command line: check, draft --stale, blast-radius                        *)
(***************************************************************************)
\* MERKLE_JSON = ".chronicler/.merkle.json"
MerkleJson == << DocDir, <<".merkle", ".", "json">> >>

\* cfg.merkle.ignore_patterns of the default configuration.
CliIgnore ==
    {<<".git">>, <<"node_modules">>, <<"__pycache__">>, <<".venv">>, <<"build">>,
     <<"dist">>, <<".tox">>, <<".worktrees">>}

\* _load_or_build_merkle(root): (tree, was_fresh); a tree that was built is
\* saved to root/.chronicler/.merkle.json by the caller of this operator.
load_or_build_merkle(root, fs, doc, now) ==
    IF is_file(root \o MerkleJson, fs)
        THEN [raised |-> "", tree |-> from_json(doc.v), was_fresh |-> FALSE]
    ELSE LET b == BuildTree(fs, root, DocDir, CliIgnore, now, "list")
         IN  [raised |-> b.raised, tree |-> b.tree, was_fresh |-> TRUE]

\* What a command leaves behind: its exit code, the message it prints, the
\* document it saved to .merkle.json (or None), and the levels it lists.
Outcome(exit, output, save, levels) ==
    [exit |-> exit, output |-> output, save |-> save, levels |-> levels]

\* chronicler check [--fail-on-stale] path, with l the outcome of
\* _load_or_build_merkle(root) and r that of check_drift(tree); an exception
\* that leaves the command ends it with exit code 1.
cli_check(fail_on_stale, l, r) ==
    IF l.raised # "" THEN Outcome(1, l.raised, None, << >>)
    ELSE IF l.was_fresh
        THEN Outcome(0, "First scan complete", Some(to_json(l.tree)), << >>)
    ELSE IF r.raised # "" THEN Outcome(1, r.raised, None, << >>)
    ELSE IF r.value = << >> THEN Outcome(0, "All docs up to date", None, << >>)
    ELSE Outcome(IF fail_on_stale THEN 1 ELSE 0, "stale doc(s) found", None, << >>)

\* chronicler draft --stale repo, with l the outcome of
\* _load_or_build_merkle(repo_path) and r that of check_drift(tree).
cli_draft_stale(l, r) ==
    IF l.raised # "" THEN Outcome(1, l.raised, None, << >>)
    ELSE IF l.was_fresh
        THEN Outcome(0, "First scan - no drift baseline yet", Some(to_json(l.tree)), << >>)
    ELSE IF r.raised # "" THEN Outcome(1, r.raised, None, << >>)
    ELSE IF r.value = << >> THEN Outcome(0, "All docs up to date", None, << >>)
    ELSE LET u == update_node(r.tree, r.value[1].path, r.value[1].source_hash.v,
                              r.value[1].doc_hash)
         IN  IF u.raised # "" THEN Outcome(1, u.raised, None, << >>)
             ELSE Outcome(0, "Merkle tree updated", Some(to_json(u.tree)), << >>)

\* _build_edge_graph(chronicler_dir): one component for every *.tech.md
\* directly in the directory; a document without YAML frontmatter (every
\* document of the model) has its file stem as id and no edges.
build_edge_graph(chronicler_dir, fs) ==
    [c \in {Stem(p) : p \in {q \in DOMAIN fs :
                                /\ fs[q].kind = "file"
                                /\ Parent(q) = chronicler_dir
                                /\ IsTechMd(q)}} |-> {}]

\* chronicler blast-radius --changed changed --depth depth path
cli_blast_radius(changed, depth, root, fs, doc) ==
    IF ~is_file(root \o MerkleJson, fs)
        THEN Outcome(1, "No .merkle.json found", None, << >>)
    ELSE IF changed \notin DOMAIN from_json(doc.v).nodes
        THEN Outcome(1, "File not found in merkle tree", None, << >>)
    ELSE Outcome(0, "Blast radius for",
                 None, blast_levels(build_edge_graph(root \o <<DocDir>>, fs), changed, depth))

\* A command has run: its outcome is the result, and the document it saved
\* is in .merkle.json; a command that built a tree used the clock.
Ran(op, o) ==
    /\ result' = [op |-> op, exit |-> o.exit, output |-> o.output, levels |-> o.levels]
    /\ IF o.save.some
          THEN /\ saved' = o.save
               /\ disk' = [disk EXCEPT ![Root \o MerkleJson] = File(JsonBytes(o.save.v))]
          ELSE UNCHANGED <<saved, disk>>
    /\ clock' = IF is_file(Root \o MerkleJson, disk) THEN clock ELSE clock + 1
    /\ UNCHANGED <<tree, old, edits, dirty, between, qvars>>

\* The command can run: it loads the tree file, or the clock allows a build.
CanRun == is_file(Root \o MerkleJson, disk) \/ clock < MaxClock

\* chronicler check; input keeps the options and whether .merkle.json was
\* there when the command started.
CliCheck ==
    /\ CanRun
    /\ \E f \in BOOLEAN :
          /\ input' = [op |-> "check", fail_on_stale |-> f,
                       baseline |-> is_file(Root \o MerkleJson, disk)]
          /\ \E l \in {load_or_build_merkle(Root, disk, saved, UtcTime(clock))} :
             \E r \in {MerkleTree_check_drift(l.tree, disk)} :
             \E o \in {cli_check(f, l, r)} : Ran("check", o)

\* chronicler draft --stale
CliDraftStale ==
    /\ CanRun
    /\ input' = [op |-> "draft --stale", baseline |-> is_file(Root \o MerkleJson, disk)]
    /\ \E l \in {load_or_build_merkle(Root, disk, saved, UtcTime(clock))} :
       \E r \in {MerkleTree_check_drift(l.tree, disk)} :
       \E o \in {cli_draft_stale(l, r)} : Ran("draft --stale", o)

\* chronicler blast-radius --changed p --depth d
CliBlastRadius ==
    /\ \E p \in NodePaths, d \in 0..MaxDepth :
          /\ input' = [op |-> "blast-radius", changed |-> p, depth |-> d,
                       baseline |-> is_file(Root \o MerkleJson, disk)]
          /\ \E o \in {cli_blast_radius(p, d, Root, disk, saved)} :
                /\ result' = [op |-> "blast-radius", exit |-> o.exit,
                              output |-> o.output, levels |-> o.levels]
    /\ UNCHANGED <<disk, clock, tree, old, edits, dirty, between, saved, qvars>>

\* The project of the command-line tests, with room for .merkle.json.
CliDisk ==
    [p \in DiskPaths \cup {Root \o MerkleJson} |->
        IF p \in {Root \o f : f \in {ReadmeMd, SrcMainPy, SrcUtilPy}} THEN File(<<1>>)
        ELSE Absent]

InitCli ==
    /\ Idle
    /\ disk = CliDisk
    /\ input = NoInput

\* The queries of a project, with and without a saved tree, and changes of
\* src/main.py.
NextCli ==
    \/ Touch
    \/ CheckStaleness
    \/ CliCheck
    \/ CliDraftStale
    \/ CliBlastRadius

SpecCli == InitCli /\ [][NextCli]_vars

\* Lookups of a path in the caller's tree and in the saved one.
NextLookup ==
    \/ Build
    \/ UpdateNode
    \/ CliCheck
    \/ CliBlastRadius

SpecLookup == InitCli /\ [][NextLookup]_vars

\* The call looked up a path that has no node: update_node on the caller's
\* tree, or blast-radius on the tree in .merkle.json.
UnknownLookup ==
    \/ result.op = "update_node" /\ input.path \notin DOMAIN tree.v.nodes
    \/ /\ result.op = "blast-radius" /\ input.baseline
       /\ input.changed \notin DOMAIN saved.v.nodes

\* C15: a lookup of a path without a node is never ignored: update_node
\* raises KeyError, blast-radius exits with code 1 and a not-found message
\* and lists nothing; a step that ends in either leaves the caller's tree,
\* the saved document and the disk as they were.
C15_UnknownLookup ==
    /\ [](UnknownLookup =>
            /\ result.op = "update_node" => result.raised = "KeyError"
            /\ result.op = "blast-radius" =>
                  /\ result.exit = 1
                  /\ result.output = "File not found in merkle tree"
                  /\ result.levels = << >>)
    /\ [][UnknownLookup' => UNCHANGED <<tree, saved, disk>>]_vars

\* blast-radius --changed nonexistent.py over a saved tree, while the caller
\* holds a tree of its own.
C15_Witness ==
    /\ result.op = "blast-radius"
    /\ input.baseline
    /\ input.changed = <<"nonexistent", ".", "py">>
    /\ StrOf(SrcMainPy) \in DOMAIN saved.v.nodes
    /\ result.exit = 1
    /\ tree.some

\* The documentation artifacts on disk under the doc directory of the root.
DocsOnDisk ==
    {StrOf(RelativeTo(p, Root)) :
        p \in {q \in DOMAIN disk :
                 /\ disk[q].kind = "file"
                 /\ IsUnder(q, Root \o <<DocDir>>)
                 /\ IsTechMd(q)}}

\* C16: check_staleness reports as orphaned exactly the documentation
\* artifacts under the doc directory that are not the doc_path of a node
\* whose source file is on disk; a doc whose only referencing source file
\* was deleted is orphaned.
C16_Orphaned ==
    result.op = "check_staleness" =>
        \A t \in {result.tree} :
            Range(result.value.orphaned) =
                DocsOnDisk \ {t.nodes[k].doc_path.v :
                                 k \in {j \in FileKeys(t) :
                                          t.nodes[j].doc_path.some /\ OnDisk(j)}}

\* A report that lists no stale entry: what a query answers when nothing
\* has changed.
AllFresh(report) == report.stale = << >>

\* C17: without a persisted tree every query reports a first scan or a
\* missing baseline and never what it reports when nothing has changed:
\* check and draft --stale report a first scan and persist the new tree,
\* blast-radius exits with an error, and check_staleness returns no
\* all-fresh report.
C17_NoBaselineDistinct ==
    /\ (result.op \in {"check", "draft --stale"} /\ ~input.baseline) =>
          /\ result.exit = 0
          /\ result.output \in {"First scan complete", "First scan - no drift baseline yet"}
          /\ is_file(Root \o MerkleJson, disk)
          /\ saved.some
    /\ (result.op = "blast-radius" /\ ~input.baseline) =>
          /\ result.exit = 1
          /\ result.output = "No .merkle.json found"
    /\ (result.op = "check_staleness" /\ ~is_file(tree_path(Root), disk)) =>
          ~AllFresh(result.value)

\* The diff lists at least one path.
DiffNonEmpty(d) ==
    d.added.items # << >> \/ d.removed.items # << >> \/ d.changed.items # << >>

\* C18: for two trees built over the same root, whenever diff lists an
\* added, removed or changed path, root_changed is true; a file renamed
\* inside its directory and two files of one directory swapping contents
\* are such changes.
C18_ChangeReachesRoot ==
    (result.op = "diff" /\ DiffNonEmpty(result.value)) => result.value.root_changed

\* A regular file is at the relative path f of the root.
FileAt(f) == disk[Root \o f].kind = "file"

\* The doc a build over the disk pairs with src/main.py: the sibling
\* src/.chronicler/main.tech.md if it is there, else the root candidate
\* .chronicler/src-main.tech.md if it is there, else none.
ExpectedDoc ==
    IF FileAt(SiblingDocMain) THEN Some(SiblingDocMain)
    ELSE IF FileAt(RootDocMain) THEN Some(RootDocMain)
    ELSE None

\* C19: doc pairing tries the sibling candidate first and the root
\* candidate only when the sibling gives no match: with both files the
\* sibling is paired, with one of them that one, and with neither the
\* node's doc_path and doc_hash are both absent; doc_hash is the content
\* hash of the paired file.  (No other file of the model has a candidate
\* on disk.)
C19_PairingOrder ==
    (result.op = "build" /\ result.raised = "") =>
        \A k \in FileKeys(tree.v) :
            LET node == tree.v.nodes[k]
                want == IF k = StrOf(SrcMainPy) THEN ExpectedDoc ELSE None
            IN  /\ node.doc_path.some <=> want.some
                /\ node.doc_hash.some <=> want.some
                /\ want.some =>
                      /\ node.doc_path.v = StrOf(want.v)
                      /\ node.doc_hash.v = compute_hash(disk[Root \o want.v].data)

\* Both documents of src/main.py are on disk, with different contents, and
\* the build paired the sibling.
C19_Witness ==
    /\ result.op = "build" /\ result.raised = ""
    /\ FileAt(SrcMainPy) /\ FileAt(SiblingDocMain) /\ FileAt(RootDocMain)
    /\ disk[Root \o SiblingDocMain].data # disk[Root \o RootDocMain].data
    /\ tree.v.nodes[StrOf(SrcMainPy)].doc_path = Some(StrOf(SiblingDocMain))

(***************************************************************************)
(* Unreadable files                                                        *)
(***************************************************************************)
SourcePaths == {Root \o SrcMainPy, Root \o SrcUtilPy}

\* os.chmod(p, 0) on a source file by its owner.
Chmod ==
    \E p \in SourcePaths :
        /\ edits < MaxEdits
        /\ disk[p].kind = "file" /\ disk[p].readable
        /\ disk' = [disk EXCEPT ![p] = Locked(disk[p].data)]
        /\ edits' = edits + 1
        /\ result' = [op |-> "chmod"]
        /\ UNCHANGED <<clock, tree, old, dirty, between, saved, input, qvars>>

\* Path.write_text on a source file the process may open.
WriteSource ==
    \E p \in SourcePaths, c \in Contents : disk[p].readable /\ WriteFile(p, c)

NextLocked ==
    \/ WriteSource
    \/ Chmod
    \/ Build
    \/ DifferCheckDrift

\* Builds and drift checks over sources that are rewritten or made
\* unreadable.
SpecLocked == InitNode /\ [][NextLocked]_vars

\* The file of a node is on disk and cannot be opened.
LockedOnDisk(k) ==
    /\ Root \o PathOf(k) \in DOMAIN disk
    /\ disk[Root \o PathOf(k)].kind = "file"
    /\ ~disk[Root \o PathOf(k)].readable

\* C20: a file that cannot be read is skipped by check_drift: the call
\* completes, the file's node is neither returned nor flagged, and drift of
\* the readable files is still reported; a full build over such a file
\* aborts.
C20_UnreadableSkipped ==
    /\ (/\ result.op = "check_drift"
        /\ \E k \in FileKeys(tree.v) : LockedOnDisk(k)) =>
            /\ result.raised = ""
            /\ \A k \in FileKeys(tree.v) :
                  /\ LockedOnDisk(k) =>
                        k \notin PathsOf(result.value) /\ ~tree.v.nodes[k].stale
                  /\ (~LockedOnDisk(k) /\ OnDisk(k)
                        /\ DiskHash(k) # tree.v.nodes[k].source_hash.v) =>
                        k \in PathsOf(result.value)
    /\ (/\ result.op = "build"
        /\ \E p \in SourcePaths : disk[p].kind = "file" /\ ~disk[p].readable) =>
            result.raised # ""

\* C21: update_node(path, source_hash) on an existing file node succeeds and
\* leaves the node with source_hash and hash equal to the given hash and
\* stale = false, whatever its stale value was before.
C21_UpdateNodeSucceeds ==
    (/\ result.op = "update_node"
     /\ input.path \in FileKeys(tree.v)
     /\ WellFormedDigest(input.hash)) =>
        /\ result.raised = ""
        /\ tree.v.nodes[input.path].source_hash = Some(input.hash)
        /\ tree.v.nodes[input.path].hash = input.hash
        /\ ~tree.v.nodes[input.path].stale

(***************************************************************************)
(* Regeneration of stale docs                                              *)
(***************************************************************************)
\* drafter: None, or a drafter whose draft_single returns True, returns
\* False, or raises; the drafter of the tests leaves the disk alone.
Drafters == {"none", "succeeds", "returns False", "raises"}

\* "for entry in report.stale" with a drafter that succeeds: update_node
\* with the file's current hash (and the doc's, if the node has a doc on
\* disk); an exception of update_node leaves the loop and the function.
RECURSIVE RegenLoop(_, _, _, _)
RegenLoop(t, entries, project_path, fs) ==
    IF entries = << >> THEN [raised |-> "", tree |-> t]
    ELSE LET entry == Head(entries)
             source_file == project_path \o PathOf(entry.source_path)
             known == entry.source_path \in DOMAIN t.nodes
             doc_file == project_path \o PathOf(t.nodes[entry.source_path].doc_path.v)
             new_doc_hash ==
                 IF known /\ t.nodes[entry.source_path].doc_path.some /\ is_file(doc_file, fs)
                     THEN Some(compute_file_hash(doc_file, fs))
                 ELSE None
         IN  IF ~is_file(source_file, fs)
                 THEN RegenLoop(t, Tail(entries), project_path, fs)
             ELSE LET u == update_node(t, entry.source_path,
                                       compute_file_hash(source_file, fs), new_doc_hash)
                  IN  IF u.raised # "" THEN u
                      ELSE RegenLoop(u.tree, Tail(entries), project_path, fs)

\* The source paths of a list of StaleEntry.
SourcePathsOf(entries) == [i \in 1..Len(entries) |-> entries[i].source_path]

\* regenerate_stale(project_path, drafter), with report the outcome of its
\* call of check_staleness: the RegenerationReport, the exception that left
\* the function, and the tree document it saved (or None).
regenerate_stale(report, drafter, project_path, fs, doc, now) ==
    LET nothing == [raised |-> "", regenerated |-> << >>, failed |-> << >>,
                    skipped |-> << >>, save |-> None]
        paths == SourcePathsOf(report.stale)
        loop == RegenLoop(load_or_build_tree(project_path, fs, doc, now),
                          report.stale, project_path, fs)
    IN  IF report.stale = << >> THEN nothing
        ELSE IF drafter = "none" THEN [nothing EXCEPT !.skipped = paths]
        ELSE IF drafter \in {"returns False", "raises"} THEN [nothing EXCEPT !.failed = paths]
        ELSE IF loop.raised # "" THEN [nothing EXCEPT !.raised = loop.raised]
        ELSE [nothing EXCEPT !.regenerated = paths, !.save = Some(to_json(loop.tree))]

\* result = regenerate_stale(root, drafter)
RegenerateStale ==
    /\ \E d \in Drafters :
          /\ input' = [op |-> "regenerate_stale", drafter |-> d]
          /\ \E c \in {check_staleness(Root, disk, saved, UtcTime(clock))} :
             \E r \in {regenerate_stale(c.report, d, Root, disk, saved, UtcTime(clock))} :
                /\ result' = [op |-> "regenerate_stale", raised |-> r.raised,
                              stale |-> SourcePathsOf(c.report.stale),
                              regenerated |-> r.regenerated, failed |-> r.failed,
                              skipped |-> r.skipped]
                /\ IF r.save.some
                      THEN /\ saved' = r.save
                           /\ disk' = [disk EXCEPT ![tree_path(Root)] = File(JsonBytes(r.save.v))]
                      ELSE UNCHANGED <<saved, disk>>
    /\ UNCHANGED <<clock, tree, old, edits, dirty, between, qvars>>

NextRegen ==
    \/ Touch
    \/ BuildMerkle
    \/ RegenerateStale
    \/ CheckStaleness

\* A saved tree, changes of src/main.py, regeneration and staleness checks.
SpecRegen == InitFresh /\ [][NextRegen]_vars

\* C22: regeneration clears staleness: when regenerate_stale has run with a
\* drafter that succeeds and check_staleness is the next call, with no disk
\* change in between, the files regenerate_stale found stale are not
\* reported stale again, and regenerate_stale returned them as regenerated.
C22_RegenerationClears ==
    [][(/\ result.op = "regenerate_stale"
        /\ input.drafter = "succeeds"
        /\ result'.op = "check_staleness") =>
            /\ result.raised = ""
            /\ result.regenerated = result.stale
            /\ \A i \in 1..Len(result.stale) :
                  result.stale[i] \notin Range(SourcePathsOf(result'.value.stale))]_vars

(***************************************************************************)
(* SQLiteQueue: a jobs table shared by several connections                 *)
(***************************************************************************)
MaxQueueOps == 5   \* statements that write a row, in one behaviour

\* SQLiteQueue.MAX_ATTEMPTS
MAX_ATTEMPTS == 3

\* The jobs that are enqueued, in the order of their created_at, and an id
\* that never is.
JobIds == <<"job-0", "job-1">>
UnknownId == "no-such-id"
CallIds == Range(JobIds) \cup {UnknownId}

\* The SQLiteQueue objects, each with a connection of its own.
Conns == {"q1", "q2"}

Reasons == {"fail 1", "fail 2"}

\* A row of the table jobs: the columns the queue reads and writes.
Row(id, status, created_at, updated_at, error, attempts) ==
    [id |-> id, status |-> status, created_at |-> created_at,
     updated_at |-> updated_at, error |-> error, attempts |-> attempts]

\* _now_iso(): one tick after the latest updated_at of the table.
NowIso(table) == Max({0} \cup {table[j].updated_at : j \in DOMAIN table}) + 1

\* "SELECT ... WHERE status = 'pending' ORDER BY created_at ASC LIMIT 1"
OldestPending(table) ==
    LET pending == {j \in DOMAIN table : table[j].status = "pending"}
    IN  IF pending = {} THEN None
        ELSE Some(table[CHOOSE j \in pending :
                          \A k \in pending : table[j].created_at <= table[k].created_at])

\* "SELECT ... WHERE status = 'dead' ORDER BY updated_at ASC"
dead_letters(table) ==
    SortSet({table[j] : j \in {k \in DOMAIN table : table[k].status = "dead"}},
            LAMBDA r, q : r.updated_at < q.updated_at)

\* A faulty variant of WriteLockFree: BEGIN takes no lock.
WriteLockIgnored(holder) == TRUE

\* BEGIN IMMEDIATE, and a writing statement in autocommit mode, go ahead
\* when no other connection holds the write lock.
WriteLockFree(holder) == holder = "free"

\* A faulty variant of NackStatus that allows one attempt more.
NackStatusLate(new_attempts) ==
    IF new_attempts > MAX_ATTEMPTS THEN "dead" ELSE "pending"

\* nack: new_status from new_attempts
NackStatus(new_attempts) ==
    IF new_attempts >= MAX_ATTEMPTS THEN "dead" ELSE "pending"

\* A connection between two calls, with what its last call returned.
IdleCall(ret) == [pc |-> "idle", id |-> "", reason |-> "", row |-> None, ret |-> ret]

Returns(op, raised, job) == [op |-> op, raised |-> raised, job |-> job]

\* The part of the state the queue leaves alone.
TreeUnchanged ==
    UNCHANGED <<disk, clock, tree, old, edits, dirty, between, saved, input, result>>

\* A call on connection c can start.
CanCall(c) == calls[c].pc = "idle" /\ NowIso(jobs) <= MaxQueueOps

\* queue.enqueue(Job(id=j, payload=...)): one INSERT in autocommit mode; a
\* second row with the same id is refused by the primary key.
Enqueue(c) ==
    /\ CanCall(c) /\ WriteLockFree(lock)
    /\ \E i \in 1..Len(JobIds) :
          LET j == JobIds[i]
          IN  IF j \in DOMAIN jobs
                  THEN /\ calls' = [calls EXCEPT ![c] = IdleCall(Returns("enqueue", "IntegrityError", None))]
                       /\ UNCHANGED jobs
              ELSE /\ jobs' = [k \in DOMAIN jobs \cup {j} |->
                                 IF k = j THEN Row(j, "pending", i, i, None, 0) ELSE jobs[k]]
                   /\ calls' = [calls EXCEPT ![c] = IdleCall(Returns("enqueue", "", None))]
    /\ UNCHANGED <<lock, returned>>
    /\ TreeUnchanged

\* A call that has to write (enqueue, dequeue, ack, nack) finds the database
\* locked by another connection until its busy timeout ends:
\* sqlite3.OperationalError.
DatabaseLocked(c) ==
    /\ calls[c].pc = "idle" /\ ~WriteLockFree(lock)
    /\ calls' = [calls EXCEPT ![c] = IdleCall(Returns("write", "OperationalError", None))]
    /\ UNCHANGED <<jobs, lock, returned>>
    /\ TreeUnchanged

\* dequeue: cursor.execute("BEGIN IMMEDIATE")
DequeueBegin(c) ==
    /\ CanCall(c) /\ WriteLockFree(lock)
    /\ lock' = c
    /\ calls' = [calls EXCEPT ![c].pc = "dequeue: begun"]
    /\ UNCHANGED <<jobs, returned>>
    /\ TreeUnchanged

\* dequeue: the SELECT of the oldest pending row
DequeueSelect(c) ==
    /\ calls[c].pc = "dequeue: begun"
    /\ calls' = [calls EXCEPT ![c].pc = "dequeue: selected", ![c].row = OldestPending(jobs)]
    /\ UNCHANGED <<jobs, lock, returned>>
    /\ TreeUnchanged

\* dequeue: COMMIT and "return None" when no row was selected
DequeueNone(c) ==
    /\ calls[c].pc = "dequeue: selected" /\ ~calls[c].row.some
    /\ lock' = IF lock = c THEN "free" ELSE lock
    /\ calls' = [calls EXCEPT ![c] = IdleCall(Returns("dequeue", "", None))]
    /\ UNCHANGED <<jobs, returned>>
    /\ TreeUnchanged

\* dequeue: "UPDATE jobs SET status = 'processing', updated_at = now WHERE id = row[0]"
DequeueUpdate(c) ==
    /\ calls[c].pc = "dequeue: selected" /\ calls[c].row.some
    /\ LET id == calls[c].row.v.id
           now == NowIso(jobs)
       IN  /\ jobs' = [jobs EXCEPT ![id].status = "processing", ![id].updated_at = now]
           /\ calls' = [calls EXCEPT ![c].pc = "dequeue: updated",
                                     ![c].row = Some([calls[c].row.v EXCEPT
                                                        !.status = "processing",
                                                        !.updated_at = now])]
    /\ UNCHANGED <<lock, returned>>
    /\ TreeUnchanged

\* dequeue: COMMIT and "return job", the selected row with the new status
\* and timestamp
DequeueCommit(c) ==
    /\ calls[c].pc = "dequeue: updated"
    /\ lock' = IF lock = c THEN "free" ELSE lock
    /\ calls' = [calls EXCEPT ![c] = IdleCall(Returns("dequeue", "", calls[c].row))]
    /\ returned' = Append(returned, calls[c].row.v.id)
    /\ UNCHANGED jobs
    /\ TreeUnchanged

\* queue.ack(job_id): one UPDATE in autocommit mode, whatever the row's status
Ack(c) ==
    /\ CanCall(c) /\ WriteLockFree(lock)
    /\ \E id \in CallIds :
          /\ jobs' = [j \in DOMAIN jobs |->
                        IF j = id THEN [jobs[j] EXCEPT !.status = "completed",
                                                       !.updated_at = NowIso(jobs)]
                        ELSE jobs[j]]
          /\ calls' = [calls EXCEPT ![c] = IdleCall(Returns("ack", "", None))]
    /\ UNCHANGED <<lock, returned>>
    /\ TreeUnchanged

\* nack: cursor.execute("BEGIN IMMEDIATE")
NackBegin(c) ==
    /\ CanCall(c) /\ WriteLockFree(lock)
    /\ \E id \in CallIds, reason \in Reasons :
          calls' = [calls EXCEPT ![c].pc = "nack: begun", ![c].id = id, ![c].reason = reason]
    /\ lock' = c
    /\ UNCHANGED <<jobs, returned>>
    /\ TreeUnchanged

\* nack: "SELECT attempts FROM jobs WHERE id = ?"
NackSelect(c) ==
    /\ calls[c].pc = "nack: begun"
    /\ calls' = [calls EXCEPT ![c].pc = "nack: selected",
                              ![c].row = IF calls[c].id \in DOMAIN jobs
                                             THEN Some(jobs[calls[c].id]) ELSE None]
    /\ UNCHANGED <<jobs, lock, returned>>
    /\ TreeUnchanged

\* nack: the UPDATE of status, error, attempts and updated_at
NackUpdate(c) ==
    /\ calls[c].pc = "nack: selected" /\ calls[c].row.some
    /\ LET new_attempts == calls[c].row.v.attempts + 1
       IN  jobs' = [jobs EXCEPT ![calls[c].id] =
                       [@ EXCEPT !.status = NackStatus(new_attempts),
                                 !.error = Some(calls[c].reason),
                                 !.attempts = new_attempts,
                                 !.updated_at = NowIso(jobs)]]
    /\ calls' = [calls EXCEPT ![c].pc = "nack: updated"]
    /\ UNCHANGED <<lock, returned>>
    /\ TreeUnchanged

\* nack: COMMIT, after the UPDATE or when no row has the id
NackCommit(c) ==
    /\ \/ calls[c].pc = "nack: updated"
       \/ calls[c].pc = "nack: selected" /\ ~calls[c].row.some
    /\ lock' = IF lock = c THEN "free" ELSE lock
    /\ calls' = [calls EXCEPT ![c] = IdleCall(Returns("nack", "", None))]
    /\ UNCHANGED <<jobs, returned>>
    /\ TreeUnchanged

\* SQLiteQueue(db_path) on every connection of a database with the given rows.
OpenQueue(table) ==
    /\ jobs = table
    /\ lock = "free"
    /\ calls = [c \in Conns |-> IdleCall(Returns("open", "", None))]
    /\ returned = << >>

\* Everything but the queue is at rest.
NoTree ==
    /\ disk = DiskWith({})
    /\ clock = 0
    /\ tree = None
    /\ old = None
    /\ edits = 0
    /\ dirty = FALSE
    /\ between = FALSE
    /\ saved = None
    /\ input = NoInput
    /\ result = [op |-> "init"]

\* Any set of pending jobs, as enqueue leaves them.
PendingTables ==
    {[j \in {JobIds[i] : i \in S} |->
         Row(j, "pending", CHOOSE i \in S : JobIds[i] = j, CHOOSE i \in S : JobIds[i] = j, None, 0)] :
       S \in SUBSET (1..Len(JobIds))}

InitDequeue == NoTree /\ \E table \in PendingTables : OpenQueue(table)

\* Concurrent dequeue calls on the connections.
NextDequeue ==
    \E c \in Conns :
        \/ DequeueBegin(c)
        \/ DequeueSelect(c)
        \/ DequeueNone(c)
        \/ DequeueUpdate(c)
        \/ DequeueCommit(c)
        \/ DatabaseLocked(c)

SpecDequeue == InitDequeue /\ [][NextDequeue]_vars

InitQueue == NoTree /\ OpenQueue(<< >>)

\* Every call of the queue, on every connection.
NextQueue ==
    \E c \in Conns :
        \/ Enqueue(c)
        \/ DequeueBegin(c)
        \/ DequeueSelect(c)
        \/ DequeueNone(c)
        \/ DequeueUpdate(c)
        \/ DequeueCommit(c)
        \/ Ack(c)
        \/ NackBegin(c)
        \/ NackSelect(c)
        \/ NackUpdate(c)
        \/ NackCommit(c)
        \/ DatabaseLocked(c)

SpecQueue == InitQueue /\ [][NextQueue]_vars

\* C23: dequeue claims exclusively: for any set of pending jobs and any
\* interleaving of dequeue calls on separate connections, no job is
\* returned by more than one dequeue call, and a returned job is in status
\* processing, in the object returned and in the table.
C23_DequeueExclusive ==
    /\ \A i, k \in 1..Len(returned) : i # k => returned[i] # returned[k]
    /\ \A i \in 1..Len(returned) : jobs[returned[i]].status = "processing"
    /\ \A c \in Conns :
          (calls[c].ret.op = "dequeue" /\ calls[c].ret.job.some) =>
              /\ calls[c].ret.job.v.status = "processing"
              /\ calls[c].ret.job.v.id \in Range(returned)

\* Two pending jobs were claimed by dequeue calls on the two connections:
\* each connection returned one of them.
C23_Witness ==
    /\ Len(returned) = 2
    /\ calls["q1"].ret.job.some /\ calls["q2"].ret.job.some
    /\ calls["q1"].ret.job.v.id # calls["q2"].ret.job.v.id

\* The last id of a sequence of returned ids.
LastReturned(seq) == seq[Len(seq)]

C30_TerminalFinal ==
    [][\A j \in DOMAIN jobs :
          jobs[j].status \in {"completed", "dead"} =>
              /\ jobs'[j].status = jobs[j].status
              /\ Len(returned') > Len(returned) => LastReturned(returned') # j]_vars

(***************************************************************************)
(* Freshness of an unchanged, documented project                           *)
(***************************************************************************)
\* The source files of the project that are on disk.
SourcesOnDisk == {f \in {SrcMainPy, SrcUtilPy} : FileAt(f)}

\* Every source file on disk has a .tech.md the pairing rule finds.
AllSourcesPaired ==
    \A f \in SourcesOnDisk : find_doc_for_source(StrOf(f), DocDir, Root, disk).doc.some

\* C25: for a project in which every source file has a paired .tech.md in
\* the doc directory and nothing changed since the tree was built and saved,
\* check_staleness reports no stale, no uncovered and no orphaned entries.
C25_FreshProjectEmpty ==
    (/\ result.op = "check_staleness"
     /\ saved.some /\ ~dirty
     /\ SourcesOnDisk # {}
     /\ AllSourcesPaired)
        => /\ result.value.stale = << >>
           /\ result.value.uncovered = << >>
           /\ result.value.orphaned = << >>

\* fresh_count = report.total_files - len(report.stale) - len(report.uncovered)
fresh_count(report) == report.total_files - Len(report.stale) - Len(report.uncovered)

\* The source paths of the stale entries of a report.
StalePathsOf(report) == {report.stale[i].source_path : i \in 1..Len(report.stale)}

\* C26: the freshness report puts each tracked file that is on disk into
\* exactly one of fresh, stale and uncovered: no path is in both the stale
\* list and the uncovered list, so the fresh count shown by status,
\* total_files - |stale| - |uncovered|, is never negative and is the number
\* of tracked files on disk that are neither stale nor uncovered.
C26_ExclusiveClasses ==
    result.op = "check_staleness" =>
        \A report \in {result.value} :
            /\ StalePathsOf(report) \cap Range(report.uncovered) = {}
            /\ fresh_count(report) >= 0
            /\ fresh_count(report) =
                  Cardinality({k \in FileKeys(result.tree) :
                                  /\ OnDisk(k)
                                  /\ k \notin StalePathsOf(report)
                                  /\ k \notin Range(report.uncovered)})

(***************************************************************************)
(* What check_drift leaves alone                                           *)
(***************************************************************************)
NextDrift ==
    \/ WriteSource
    \/ (\E p \in SourcePaths : DeleteFile(p))
    \/ Build
    \/ CheckDrift
    \/ DifferCheckDrift

\* Builds and both drift checks over two sources that are rewritten and
\* deleted.
SpecDrift == InitNode /\ [][NextDrift]_vars

\* The paths of the nodes a check_drift call returned.
ReturnedPaths(value) == {value[i].path : i \in 1..Len(value)}

\* Tree b differs from tree a at most in the stale, source_hash and doc_hash
\* fields of the nodes at the given paths.
SameBut(a, b, paths) ==
    /\ b.keys = a.keys
    /\ DOMAIN b.nodes = DOMAIN a.nodes
    /\ b.root_hash = a.root_hash
    /\ b.root_path = a.root_path
    /\ b.last_scan = a.last_scan
    /\ \A k \in DOMAIN a.nodes :
          /\ b.nodes[k].path = a.nodes[k].path
          /\ b.nodes[k].children = a.nodes[k].children
          /\ b.nodes[k].hash = a.nodes[k].hash
          /\ b.nodes[k].doc_path = a.nodes[k].doc_path
          /\ k \notin paths => b.nodes[k] = a.nodes[k]

DirsFolded(t) ==
    /\ \A d \in DOMAIN t.nodes \ FileKeys(t) :
          t.nodes[d].hash =
              compute_merkle_hash(
                  [i \in 1..Len(t.nodes[d].children.items) |->
                      t.nodes[t.nodes[d].children.items[i]].hash])
    /\ EmptyStr \in DOMAIN t.nodes
    /\ t.root_hash = t.nodes[EmptyStr].hash

\* C28: the directory-hash invariant survives updates: after a build, an
\* update_node call that gives a file node another hash leaves the node with
\* that hash and every directory node's hash, up to and including the root,
\* equal to the fold of its children's current hashes, so that root_hash
\* reflects the updated file.
C28_DirHashesSurviveUpdate ==
    [][(/\ result'.op = "update_node"
        /\ input'.path \in FileKeys(tree.v)
        /\ WellFormedDigest(input'.hash)
        /\ input'.hash # tree.v.nodes[input'.path].hash) =>
            /\ tree'.v.nodes[input'.path].hash = input'.hash
            /\ tree'.v.root_hash # tree.v.root_hash
            /\ DirsFolded(tree'.v)]_vars

\* C29: persisting the tree never creates staleness: after any number of
\* build_merkle runs on a project whose files were not modified since the
\* last of them, also when the tree file of an earlier run was in the doc
\* directory at build time, check_staleness reports an empty stale list.
C29_SavingNeverStale ==
    (result.op = "check_staleness" /\ saved.some /\ ~dirty)
        => result.value.stale = << >>
====
